---------------------------- MODULE Spec2Model ----------------------------
(***************************************************************************)
(* A model of RatCrawler: the quota-aware database router                  *)
(* (rat/sqlalchemy_database.py), the resumable auto-batch coordinator and  *)
(* its progress file (rat/auto_batch_crawler.py, rat/progress.py), the     *)
(* batch fetcher (rat/batch_crawler.py), the retrying page fetch           *)
(* (rat/backlink.py) and the priority-frontier crawl (crawler.py).         *)
(*                                                                         *)
(* Each subsystem has its own specification over its own variables; the    *)
(* variables of the other subsystems stay at their initial values.         *)
(***************************************************************************)
EXTENDS Integers, Sequences, FiniteSets, TLC

(***************************************************************************)
(* ROUTER: SQLAlchemyDatabase._check_quota / _choose_db / get_session /    *)
(* get_specific_db_session / create_crawl_session                          *)
(***************************************************************************)

\* Number of configured crawl / backlink backends that passed the start-up
\* health check and were put in databaselist1 / databaselist2.
NumCrawlDBs ==
  2

NumBacklinkDBs ==
  1

\* STORAGE_LIMIT_BYTES = 5 * 1024 * 1024 * 1024, kept in KiB so that it fits
\* 32-bit integers: bytes < 5 GiB  <=>  (bytes \div 1024) < 5 * 1024 * 1024.
STORAGE_LIMIT_KIB ==
  5 * 1024 * 1024

DAILY_WRITE_LIMIT ==
  10000000

\* The value of a usage field that is absent from the response or null.
NullVal ==
  -1

Kinds ==
  {"crawl", "backlink"}

PoolSize(kind) ==
  IF kind = "crawl" THEN NumCrawlDBs ELSE NumBacklinkDBs

\* databaselist1 / databaselist2: the backends as <<kind, index>> names in
\* configuration order.
DbList(kind) ==
  [i \in 1..PoolSize(kind) |-> <<kind, i>>]

AllDBs ==
  {<<"crawl", i>> : i \in 1..NumCrawlDBs} \cup {<<"backlink", i>> : i \in 1..NumBacklinkDBs}

NoDB ==
  <<"none", 0>>

\* What Health.current_limit can produce for one backend: the request fails
\* ("raise"), the "total" object is absent or has no key at all ("empty", a
\* falsy dict), or a non-empty dict whose storage_bytes (in KiB) /
\* rows_written are numbers, null or absent (rows_read being present).
UsageCases ==
  { [kind |-> "raise", storage |-> NullVal, writes |-> NullVal],
    [kind |-> "empty", storage |-> NullVal, writes |-> NullVal],
    [kind |-> "dict",  storage |-> NullVal, writes |-> NullVal],
    [kind |-> "dict",  storage |-> NullVal, writes |-> 1000000],
    [kind |-> "dict",  storage |-> STORAGE_LIMIT_KIB - 1, writes |-> DAILY_WRITE_LIMIT - 1],
    [kind |-> "dict",  storage |-> STORAGE_LIMIT_KIB, writes |-> 1000000],
    [kind |-> "dict",  storage |-> 0, writes |-> DAILY_WRITE_LIMIT],
    [kind |-> "dict",  storage |-> 0, writes |-> 9500000] }

NoUsage ==
  [kind |-> "empty", storage |-> NullVal, writes |-> NullVal]

VARIABLES
  usage,        \* provider side: what the usage API answers for each backend now
  cyclePos,     \* _cycle_crawl / _cycle_backlink: index of the element next() yields
  result        \* outcome of the router call in progress, until the caller takes it

routerVars ==
  <<usage, cyclePos, result>>

VARIABLES
  file,         \* crawl_progress.json as it is on disk
  mem,          \* AutoBatchCrawler.progress_data of the running process
  apc,          \* where run_auto_crawl is: stopped, loop, crawling, sleep
  page,         \* run_auto_crawl's local current_page
  batchLen,     \* len(batch_urls) of the batch being crawled
  runStart,     \* the page this run started from
  urlValid,     \* the URL source in ORDER BY url order: is the i-th URL http(s)?
  done,         \* history: pages whose batch completed since the last reset
  sumBatch,     \* history: sum of len(batch_urls) over the completed batches
  lastCompleted, \* history: the page of the most recently completed batch
  interrupted,  \* history: a run was interrupted or killed since the last reset
  cut_batch,    \* history: the page whose batch the latest interrupt cut short, or 0
  finished_at,  \* history: the page at which "All pages processed" was last declared, or 0
  seen_kinds    \* history: the kinds of URL results and of batch ends since the last reset

autoVars ==
  <<file, mem, apc, page, batchLen, runStart, urlValid, done, sumBatch, lastCompleted,
    interrupted, cut_batch, finished_at, seen_kinds>>

VARIABLES
  fpc,          \* where fetch_page_with_retry is: idle, backoff, top, wait, rate_wait, done
  attempt,      \* the loop variable of "for attempt in range(self.max_retries)"
  is_social,    \* is_social_media_domain(url)
  requests,     \* history: session.get calls issued by this fetch
  responses,    \* history: what each session.get of this fetch met
  fresult       \* what the fetch returned: none yet, page, fail

fetchVars ==
  <<fpc, attempt, is_social, requests, responses, fresult>>

VARIABLES
  bphase,       \* where crawl_batch is: idle, gathering, returned, raised
  tpc,          \* per URL of the batch, where its crawl_with_semaphore task is
  batch_results, \* per URL, what gather collected for its task
  semaphore,    \* the value of asyncio.Semaphore(self.max_concurrent)
  batch_result, \* the dict crawl_batch returned
  stored,       \* URLs of the batch whose store_crawled_page call succeeded
  run_outcome,  \* run_batch_crawl around the batch: running, or ended with an error
  statuses      \* history: per URL, the status each session.get of its task met

batchVars ==
  <<bphase, tpc, batch_results, semaphore, batch_result, stored, run_outcome,
    statuses>>

VARIABLES
  cpc,            \* where comprehensive_crawl is: new, crawling, ended
  visited_urls,   \* EnhancedProductionCrawler.visited_urls
  content_hashes, \* EnhancedProductionCrawler.content_hashes
  url_frontier,   \* the heap of (priority, url): how many copies of each entry it holds
  crawled_pages,  \* len(self.crawled_pages)
  current_depth,  \* comprehensive_crawl's local current_depth
  pageTable,      \* table crawled_pages: per url, its row's crawl_time and content_hash
  now,            \* the clock, in days
  disallowed,     \* the URLs robots.txt disallows for the crawler
  lastOk,         \* history: per URL, the day of its latest successful GET in this run
  lastGet,        \* history: the GET of the latest loop iteration, if it issued one
  noindex,        \* the URLs whose page carries <meta name="robots" content="noindex">
  robots_errors,  \* table crawl_errors: per url, how many ROBOTS_BLOCKED rows it has
  first_body,     \* history: per body hash, the URL whose fetch returned it first
  lastDup,        \* history: the duplicate-content skip of the latest iteration, if any
  lastLogged      \* history: the type of the crawl_errors row the latest iteration wrote

crawlVars ==
  <<cpc, visited_urls, content_hashes, url_frontier, crawled_pages, current_depth,
    pageTable, now, disallowed, lastOk, lastGet, noindex, robots_errors, first_body,
    lastDup, lastLogged>>

VARIABLES
  store_usage,      \* provider side: the usage of each crawl backend, as the router sees it
  store_cycle,      \* _cycle_crawl: index of the element next() yields
  crawl_sessions,   \* per crawl backend, table crawl_sessions: row id -> status
  page_rows,        \* per crawl backend, table crawled_pages: rows as (url, session_id)
  foreign_keys,     \* whether the backends' engine enforces FOREIGN KEY constraints
  first_terminal,   \* history: per session row, the first terminal status written to it
  finish_called     \* the (backend, id) pairs whose creator has called finish_crawl_session

VARIABLES
  sqlite_sessions,  \* WebsiteCrawlerDatabase, table crawl_sessions: row id -> status
  sqlite_pages      \* WebsiteCrawlerDatabase, table crawled_pages: rows as (url, session_id)

storeVars ==
  <<store_usage, store_cycle, crawl_sessions, page_rows, foreign_keys, first_terminal,
    finish_called>>

sqliteVars ==
  <<sqlite_sessions, sqlite_pages>>

VARIABLES
  bl_usage,         \* provider side: the usage of each backlink backend
  bl_cycle,         \* _cycle_backlink: index of the element next() yields
  backlink_rows,    \* per backlink backend, table backlinks: how many rows each link has
  sb_pc,            \* where store_backlinks is: idle, chunk, returned, raised
  sb_input,         \* the list the callers pass to store_backlinks
  sb_i,             \* the loop variable i of store_backlinks
  sb_calls,         \* history: how many store_backlinks(sb_input) calls have ended
  sb_skipped,       \* history: the chunk numbers the call in progress has skipped
  sb_attempted,     \* history: the chunk numbers the call in progress has got a session for
  sb_failed,        \* history: whether some call so far has skipped a chunk or raised
  rows_after_first  \* history: the number of backlinks rows when the first call ended

VARIABLES
  pr_usage,         \* provider side: the usage of each crawl backend
  pr_cycle,         \* _cycle_crawl: index of the element next() yields
  pagerank_rows,    \* per crawl backend, table pagerank_scores: the URLs with a committed row
  pr_pc,            \* where store_pagerank_scores is: idle, loop, returned, raised
  pr_input,         \* the keys of the dict passed to store_pagerank_scores, in its order
  pr_db,            \* the backend of the session the call holds
  stored_count,     \* store_pagerank_scores' local stored_count
  pr_pending,       \* the URLs written in the session and not yet committed
  pr_error,         \* history: what the call in progress met: none, session, sql
  pr_calls          \* history: how many calls have ended

pagerankVars ==
  <<pr_usage, pr_cycle, pagerank_rows, pr_pc, pr_input, pr_db, stored_count, pr_pending,
    pr_error, pr_calls>>

backlinkVars ==
  <<bl_usage, bl_cycle, backlink_rows, sb_pc, sb_input, sb_i, sb_calls, sb_skipped,
    sb_attempted, sb_failed, rows_after_first>>

VARIABLES
  ub_usage,         \* provider side: the usage of each backlink backend
  ub_cycle,         \* _cycle_backlink: index of the element next() yields
  url_store,        \* per backlink backend, the URLs in source_url / target_url of its rows
  url_invalid,      \* the stored URLs that fail the URL validation
  first_answer,     \* history: per page, what the first get_urls_batch(page) returned
  last_answer       \* history: the page and the list of the latest get_urls_batch call

urlsVars ==
  <<ub_usage, ub_cycle, url_store, url_invalid, first_answer, last_answer>>

VARIABLES
  pf_disk,          \* crawl_progress.json: absent, or the tokens that are on disk
  pf_pc,            \* where save_progress is: idle or writing
  pf_new,           \* the progress_data of the save_progress call in progress
  pf_prev,          \* history: the file as it was when that call began
  pf_loaded         \* history: what the latest load_progress returned, and how

progressVars ==
  <<pf_disk, pf_pc, pf_new, pf_prev, pf_loaded>>

VARIABLES
  mg_schema,        \* per backend: is it reachable, has it crawled_pages, and its columns
  mg_before,        \* history: mg_schema before the first _migrate_tables
  mg_first,         \* history: mg_schema after the first _migrate_tables
  mg_applied,       \* history: how many times _migrate_tables has run
  mg_raised,        \* history: a _migrate_tables call raised to its caller
  sq_schema,        \* the SQLite file of LiveDatabaseManager: its table and columns
  sq_new_columns,   \* the new_columns argument of update_schema_safely
  sq_before,        \* history: sq_schema before the first update_schema_safely
  sq_first,         \* history: sq_schema after the first update_schema_safely
  sq_applied,       \* history: how many times update_schema_safely has run
  sq_raised         \* history: an update_schema_safely call raised to its caller

migrateVars ==
  <<mg_schema, mg_before, mg_first, mg_applied, mg_raised, sq_schema, sq_new_columns,
    sq_before, sq_first, sq_applied, sq_raised>>

VARIABLES
  pl_usage,         \* provider side: the usage of each configured crawl backend
  pl_useable,       \* health.useable_databases_crawler: backends and None entries (0)
  pl_list,          \* databaselist1
  pl_cycle,         \* _cycle_crawl: index in pl_list of the element next() yields
  pl_refreshes,     \* how many refresh_database_cycles calls were made
  pl_last,          \* history: the latest _choose_db("crawl") call
  pl_window         \* history: the backends the latest calls returned

poolVars ==
  <<pl_usage, pl_useable, pl_list, pl_cycle, pl_refreshes, pl_last, pl_window>>

VARIABLES
  th_usage,         \* provider side: the usage of each backend of the pool
  th_cycle,         \* the shared cycle: index of the element next() yields
  th_start,         \* history: th_cycle before any of the calls began
  th_pc,            \* per thread, where its _choose_db call is
  th_left,          \* per thread, the iterations its for-loop has left
  th_checked,       \* per thread, its local set `checked`
  th_db,            \* per thread, its local `db`
  th_result         \* per thread, what its call returned

threadsVars ==
  <<th_usage, th_cycle, th_start, th_pc, th_left, th_checked, th_db, th_result>>

VARIABLES
  d_respect,        \* self.respect_robots (and so whether robots_checker is set)
  d_host,           \* per URL of the depth, the host it is on
  d_pc,             \* per URL, where its crawl_single_url task is
  d_sem,            \* the value of the semaphore of crawl_depth
  d_clock,          \* the time, in ticks
  d_wake,           \* per URL, when the sleep of its task ends
  d_last_fetch,     \* history: per host, when the latest page request to it was issued
  d_close           \* history: two page requests to one host were issued too close

discoverVars ==
  <<d_respect, d_host, d_pc, d_sem, d_clock, d_wake, d_last_fetch, d_close>>

VARIABLES
  fr_heap,          \* self.url_frontier: its entries, each with the number of its push
  fr_pushes,        \* history: how many heappush calls were made
  fr_served,        \* history: the entry the latest heappop returned
  fr_before         \* history: the entries in the heap when that heappop was called

frontierVars ==
  <<fr_heap, fr_pushes, fr_served, fr_before>>

VARIABLES
  gr_backlinks,     \* self.backlinks: the list of BacklinkData
  gr_graph,         \* self.link_graph: the weight of each edge, NoEdge where there is none
  gr_pc             \* "collect" while backlinks are gathered, "built" after build_link_graph

graphVars ==
  <<gr_backlinks, gr_graph, gr_pc>>

VARIABLES
  status_read,      \* what a --status process has loaded and is about to save, or NoFile
  status_calls      \* how many times --status was run

statusVars ==
  <<status_read, status_calls>>

VARIABLES
  connections,      \* self.connections: for each pooled connection id its 'in_use'
  user_pc,          \* each get_connection() user: idle or using
  conn_id,          \* each user's conn_id, NoConn when it has none
  freed_on_error,   \* history: the connections whose user left by an exception
  was_refused       \* history: the users whose get_connection raised RuntimeError

managerVars ==
  <<connections, user_pc, conn_id, freed_on_error, was_refused>>

vars ==
  <<routerVars, autoVars, fetchVars, batchVars, crawlVars, storeVars, sqliteVars,
    backlinkVars, pagerankVars, urlsVars, progressVars, migrateVars, poolVars,
    threadsVars, discoverVars, frontierVars, graphVars, statusVars, managerVars>>

\* what the actions of one subsystem leave alone
notRouter ==
  <<autoVars, fetchVars, batchVars, crawlVars, storeVars, sqliteVars, backlinkVars,
    pagerankVars, urlsVars, progressVars, migrateVars, poolVars, threadsVars,
    discoverVars, frontierVars, graphVars, statusVars, managerVars>>

notAuto ==
  <<routerVars, fetchVars, batchVars, crawlVars, storeVars, sqliteVars, backlinkVars,
    pagerankVars, urlsVars, progressVars, migrateVars, poolVars, threadsVars,
    discoverVars, frontierVars, graphVars, statusVars, managerVars>>

notFetch ==
  <<routerVars, autoVars, batchVars, crawlVars, storeVars, sqliteVars, backlinkVars,
    pagerankVars, urlsVars, progressVars, migrateVars, poolVars, threadsVars,
    discoverVars, frontierVars, graphVars, statusVars, managerVars>>

notBatch ==
  <<routerVars, autoVars, fetchVars, crawlVars, storeVars, sqliteVars, backlinkVars,
    pagerankVars, urlsVars, progressVars, migrateVars, poolVars, threadsVars,
    discoverVars, frontierVars, graphVars, statusVars, managerVars>>

notCrawl ==
  <<routerVars, autoVars, fetchVars, batchVars, storeVars, sqliteVars, backlinkVars,
    pagerankVars, urlsVars, progressVars, migrateVars, poolVars, threadsVars,
    discoverVars, frontierVars, graphVars, statusVars, managerVars>>

notStore ==
  <<routerVars, autoVars, fetchVars, batchVars, crawlVars, sqliteVars, backlinkVars,
    pagerankVars, urlsVars, progressVars, migrateVars, poolVars, threadsVars,
    discoverVars, frontierVars, graphVars, statusVars, managerVars>>

notSqlite ==
  <<routerVars, autoVars, fetchVars, batchVars, crawlVars, storeVars, backlinkVars,
    pagerankVars, urlsVars, progressVars, migrateVars, poolVars, threadsVars,
    discoverVars, frontierVars, graphVars, statusVars, managerVars>>

notBacklink ==
  <<routerVars, autoVars, fetchVars, batchVars, crawlVars, storeVars, sqliteVars,
    pagerankVars, urlsVars, progressVars, migrateVars, poolVars, threadsVars,
    discoverVars, frontierVars, graphVars, statusVars, managerVars>>

notPagerank ==
  <<routerVars, autoVars, fetchVars, batchVars, crawlVars, storeVars, sqliteVars,
    backlinkVars, urlsVars, progressVars, migrateVars, poolVars, threadsVars,
    discoverVars, frontierVars, graphVars, statusVars, managerVars>>

notUrls ==
  <<routerVars, autoVars, fetchVars, batchVars, crawlVars, storeVars, sqliteVars,
    backlinkVars, pagerankVars, progressVars, migrateVars, poolVars, threadsVars,
    discoverVars, frontierVars, graphVars, statusVars, managerVars>>

notProgress ==
  <<routerVars, autoVars, fetchVars, batchVars, crawlVars, storeVars, sqliteVars,
    backlinkVars, pagerankVars, urlsVars, migrateVars, poolVars, threadsVars,
    discoverVars, frontierVars, graphVars, statusVars, managerVars>>

notMigrate ==
  <<routerVars, autoVars, fetchVars, batchVars, crawlVars, storeVars, sqliteVars,
    backlinkVars, pagerankVars, urlsVars, progressVars, poolVars, threadsVars,
    discoverVars, frontierVars, graphVars, statusVars, managerVars>>

notPool ==
  <<routerVars, autoVars, fetchVars, batchVars, crawlVars, storeVars, sqliteVars,
    backlinkVars, pagerankVars, urlsVars, progressVars, migrateVars, threadsVars,
    discoverVars, frontierVars, graphVars, statusVars, managerVars>>

notThreads ==
  <<routerVars, autoVars, fetchVars, batchVars, crawlVars, storeVars, sqliteVars,
    backlinkVars, pagerankVars, urlsVars, progressVars, migrateVars, poolVars,
    discoverVars, frontierVars, graphVars, statusVars, managerVars>>

notDiscover ==
  <<routerVars, autoVars, fetchVars, batchVars, crawlVars, storeVars, sqliteVars,
    backlinkVars, pagerankVars, urlsVars, progressVars, migrateVars, poolVars,
    threadsVars, frontierVars, graphVars, statusVars, managerVars>>

notFrontier ==
  <<routerVars, autoVars, fetchVars, batchVars, crawlVars, storeVars, sqliteVars,
    backlinkVars, pagerankVars, urlsVars, progressVars, migrateVars, poolVars,
    threadsVars, discoverVars, graphVars, statusVars, managerVars>>

notGraph ==
  <<routerVars, autoVars, fetchVars, batchVars, crawlVars, storeVars, sqliteVars,
    backlinkVars, pagerankVars, urlsVars, progressVars, migrateVars, poolVars,
    threadsVars, discoverVars, frontierVars, statusVars, managerVars>>

notStatus ==
  <<routerVars, autoVars, fetchVars, batchVars, crawlVars, storeVars, sqliteVars,
    backlinkVars, pagerankVars, urlsVars, progressVars, migrateVars, poolVars,
    threadsVars, discoverVars, frontierVars, graphVars, managerVars>>

notManager ==
  <<routerVars, autoVars, fetchVars, batchVars, crawlVars, storeVars, sqliteVars,
    backlinkVars, pagerankVars, urlsVars, progressVars, migrateVars, poolVars,
    threadsVars, discoverVars, frontierVars, graphVars, statusVars>>

notAutoStatus ==
  <<routerVars, fetchVars, batchVars, crawlVars, storeVars, sqliteVars, backlinkVars,
    pagerankVars, urlsVars, progressVars, migrateVars, poolVars, threadsVars,
    discoverVars, frontierVars, graphVars, managerVars>>

\* usage.get(field, 0) followed by "if x is None: x = 0"
FieldOrZero(v) ==
  IF v = NullVal THEN 0 ELSE v

\* The reported usage is at or over a router limit.
OverLimit(u) ==
  /\ u.kind = "dict"
  /\ \/ FieldOrZero(u.storage) >= STORAGE_LIMIT_KIB
     \/ FieldOrZero(u.writes) >= DAILY_WRITE_LIMIT

\* A variant of CheckQuota that accepts a backend below either limit.
CheckQuotaEitherLimit(u) ==
  IF u.kind # "dict" THEN FALSE
  ELSE \/ FieldOrZero(u.storage) < STORAGE_LIMIT_KIB
       \/ FieldOrZero(u.writes) < DAILY_WRITE_LIMIT

\* _check_quota on a response that did not raise
CheckQuota(u) ==
  IF u.kind # "dict" THEN FALSE
  ELSE /\ FieldOrZero(u.storage) < STORAGE_LIMIT_KIB
       /\ FieldOrZero(u.writes) < DAILY_WRITE_LIMIT

\* next(cycle) on itertools.cycle(list): yields list[pos], then pos advances
CycleNext(pos, n) ==
  (pos % n) + 1

\* A variant of ChooseLoop that ends in an error when no backend passes.
RECURSIVE ChooseLoopNoneAsError(_, _, _, _, _)
ChooseLoopNoneAsError(list, pos, attempts, checked, usg) ==
  IF attempts = 0
  THEN [outcome |-> "error", db |-> NoDB, pos |-> pos, seen |-> NoUsage,
        steps |-> 0, evals |-> <<>>]
  ELSE LET db   == list[pos]
           npos == CycleNext(pos, Len(list))
           skip == ChooseLoopNoneAsError(list, npos, attempts - 1, checked, usg)
           rest == ChooseLoopNoneAsError(list, npos, attempts - 1, checked \cup {db}, usg)
       IN  IF db \in checked
           THEN [skip EXCEPT !.steps = @ + 1]
           ELSE IF usg[db].kind = "raise"
           THEN [outcome |-> "error", db |-> NoDB, pos |-> npos, seen |-> usg[db],
                 steps |-> 1, evals |-> <<db>>]
           ELSE IF CheckQuota(usg[db])
           THEN [outcome |-> "ok", db |-> db, pos |-> npos, seen |-> usg[db],
                 steps |-> 1, evals |-> <<db>>]
           ELSE [rest EXCEPT !.steps = @ + 1, !.evals = <<db>> \o @]

\* The for-loop of _choose_db: at most len(db_list) next(cycle) steps, a
\* backend already in `checked` is skipped, the first one passing
\* _check_quota is returned; None when the loop runs out.  An exception of
\* the usage request propagates out of _choose_db.  steps counts the
\* next(cycle) calls, evals lists the backends given to _check_quota.
RECURSIVE ChooseLoop(_, _, _, _, _)
ChooseLoop(list, pos, attempts, checked, usg) ==
  IF attempts = 0
  THEN [outcome |-> "none", db |-> NoDB, pos |-> pos, seen |-> NoUsage,
        steps |-> 0, evals |-> <<>>]
  ELSE LET db   == list[pos]
           npos == CycleNext(pos, Len(list))
           skip == ChooseLoop(list, npos, attempts - 1, checked, usg)
           rest == ChooseLoop(list, npos, attempts - 1, checked \cup {db}, usg)
       IN  IF db \in checked
           THEN [skip EXCEPT !.steps = @ + 1]
           ELSE IF usg[db].kind = "raise"
           THEN [outcome |-> "error", db |-> NoDB, pos |-> npos, seen |-> usg[db],
                 steps |-> 1, evals |-> <<db>>]
           ELSE IF CheckQuota(usg[db])
           THEN [outcome |-> "ok", db |-> db, pos |-> npos, seen |-> usg[db],
                 steps |-> 1, evals |-> <<db>>]
           ELSE [rest EXCEPT !.steps = @ + 1, !.evals = <<db>> \o @]

\* _choose_db(db_type): RuntimeError when the pool is empty
ChooseDb(kind, pos, usg) ==
  IF PoolSize(kind) = 0
  THEN [outcome |-> "error", db |-> NoDB, pos |-> pos, seen |-> NoUsage,
        steps |-> 0, evals |-> <<>>]
  ELSE ChooseLoop(DbList(kind), pos, PoolSize(kind), {}, usg)

NoResult ==
  [op |-> "idle", kind |-> "crawl", outcome |-> "none", db |-> NoDB, seen |-> NoUsage]

RouterInit ==
  /\ usage \in [AllDBs -> UsageCases]
  /\ cyclePos = [k \in Kinds |-> 1]
  /\ result = NoResult

\* the router while another subsystem is under study
RouterIdle ==
  /\ usage = [db \in AllDBs |-> NoUsage]
  /\ cyclePos = [k \in Kinds |-> 1]
  /\ result = NoResult

\* The provider's usage of one backend changes (writes land, the daily
\* counter resets, the API starts or stops failing).
ProviderUsageChange ==
  /\ result.op = "idle"
  /\ \E db \in AllDBs, u \in UsageCases :
       /\ u # usage[db]
       /\ usage' = [usage EXCEPT ![db] = u]
  /\ UNCHANGED <<cyclePos, result>>
  /\ UNCHANGED notRouter

\* A direct _choose_db(kind) call
Choose ==
  /\ result.op = "idle"
  /\ \E kind \in Kinds :
       LET r == ChooseDb(kind, cyclePos[kind], usage)
       IN  /\ cyclePos' = [cyclePos EXCEPT ![kind] = r.pos]
           /\ result' = [op |-> "choose", kind |-> kind, outcome |-> r.outcome,
                         db |-> r.db, seen |-> r.seen]
  /\ UNCHANGED usage
  /\ UNCHANGED notRouter

\* get_session(db_type): RuntimeError when _choose_db returned None
GetSession ==
  /\ result.op = "idle"
  /\ \E kind \in Kinds :
       LET r == ChooseDb(kind, cyclePos[kind], usage)
       IN  /\ cyclePos' = [cyclePos EXCEPT ![kind] = r.pos]
           /\ result' = [op |-> "get_session", kind |-> kind,
                         outcome |-> IF r.outcome = "ok" THEN "ok" ELSE "error",
                         db |-> r.db, seen |-> r.seen]
  /\ UNCHANGED usage
  /\ UNCHANGED notRouter

\* create_crawl_session: _choose_db("crawl"), RuntimeError when it is None
CreateCrawlSession ==
  /\ result.op = "idle"
  /\ LET r == ChooseDb("crawl", cyclePos["crawl"], usage)
     IN  /\ cyclePos' = [cyclePos EXCEPT !["crawl"] = r.pos]
         /\ result' = [op |-> "create_crawl_session", kind |-> "crawl",
                       outcome |-> IF r.outcome = "ok" THEN "ok" ELSE "error",
                       db |-> r.db, seen |-> r.seen]
  /\ UNCHANGED usage
  /\ UNCHANGED notRouter

\* get_specific_db_session(db_name, db_type): the named backend, RuntimeError
\* when it is over quota (or the usage request raises)
GetSpecificDbSession ==
  /\ result.op = "idle"
  /\ \E db \in AllDBs :
       /\ result' = [op |-> "get_specific_db_session", kind |-> db[1],
                     outcome |-> IF usage[db].kind # "raise" /\ CheckQuota(usage[db])
                                 THEN "ok" ELSE "error",
                     db |-> IF usage[db].kind # "raise" /\ CheckQuota(usage[db])
                            THEN db ELSE NoDB,
                     seen |-> usage[db]]
  /\ UNCHANGED <<usage, cyclePos>>
  /\ UNCHANGED notRouter

\* The caller takes the result (or handles the exception)
TakeResult ==
  /\ result.op # "idle"
  /\ result' = NoResult
  /\ UNCHANGED <<usage, cyclePos>>
  /\ UNCHANGED notRouter

RouterNext ==
  \/ ProviderUsageChange
  \/ Choose
  \/ GetSession
  \/ CreateCrawlSession
  \/ GetSpecificDbSession
  \/ TakeResult


(***************************************************************************)
(* AUTO BATCH: CrawlProgress (rat/progress.py) and AutoBatchCrawler        *)
(* (rat/auto_batch_crawler.py)                                             *)
(***************************************************************************)

\* Number of distinct URLs in the backlink store.
NumUrls ==
  5

\* batch_size (50 in the program), scaled down.
BatchSize ==
  2

\* Runs are started only while current_page is at most MaxPage.
MaxPage ==
  5

\* At most this many rows of the URL source fail the http(s) validation.
MaxInvalid ==
  1

\* CrawlProgress.default_data (the fields the coordinator computes with)
DefaultData ==
  [exists |-> TRUE, current_page |-> 1, urls_processed |-> 0,
   successful_crawls |-> 0, failed_crawls |-> 0, is_running |-> FALSE]

\* no progress file on disk / no process running
NoFile ==
  [exists |-> FALSE, current_page |-> 1, urls_processed |-> 0,
   successful_crawls |-> 0, failed_crawls |-> 0, is_running |-> FALSE]

\* The rows of "ORDER BY url LIMIT :limit OFFSET :offset", offset = (page-1)*limit
PageSlice(pg, limit) ==
  { i \in 1..NumUrls : (pg - 1) * limit < i /\ i <= pg * limit }

\* get_backlink_urls_batch when the query succeeds: the rows of the slice that
\* pass the http(s) validation; only its length matters to the coordinator
BatchLenOf(pg, valid) ==
  Cardinality({ i \in PageSlice(pg, BatchSize) : valid[i] })

\* load_progress: defaults when there is no file, else the file's data, with
\* is_running coerced to False
LoadProgress(f) ==
  IF f.exists THEN [f EXCEPT !.is_running = FALSE] ELSE DefaultData

\* load_progress' effect on the file: rewritten when it said is_running
FileAfterLoad(f) ==
  IF f.exists /\ f.is_running THEN [f EXCEPT !.is_running = FALSE] ELSE f

\* save_progress overwrites the file with the data
SaveProgress(pd) ==
  [pd EXCEPT !.exists = TRUE]

\* A variant of UpdatePageProgress that adds the successful count only.
UpdatePageProgressCountsSuccessful(pd, pg, res) ==
  [pd EXCEPT !.current_page = pg + 1,
             !.urls_processed = @ + res.successful,
             !.successful_crawls = @ + res.successful,
             !.failed_crawls = @ + res.failed]

\* update_page_progress, up to its save
UpdatePageProgress(pd, pg, res) ==
  [pd EXCEPT !.current_page = pg + 1,
             !.urls_processed = @ + res.urls_processed,
             !.successful_crawls = @ + res.successful,
             !.failed_crawls = @ + res.failed]

\* A variant of FileAfterUpdate that leaves the file as it was.
FileAfterUpdateNotSaved(f, pd, pg, res) ==
  f

\* the file after update_page_progress: its trailing save_progress
FileAfterUpdate(f, pd, pg, res) ==
  SaveProgress(UpdatePageProgress(pd, pg, res))

\* crawl_single_batch's three results
FinishedResult ==
  [urls_processed |-> 0, successful |-> 0, failed |-> 0, finished |-> TRUE]

ExceptionResult(n) ==
  [urls_processed |-> n, successful |-> 0, failed |-> n, finished |-> FALSE]

NormalResult(n, s, f) ==
  [urls_processed |-> n, successful |-> s, failed |-> f, finished |-> FALSE]

AutoInit ==
  /\ file = NoFile
  /\ mem = NoFile
  /\ apc = "stopped"
  /\ page = 0
  /\ batchLen = 0
  /\ runStart = 0
  /\ urlValid \in { v \in [1..NumUrls -> BOOLEAN] :
                       Cardinality({ i \in 1..NumUrls : ~v[i] }) <= MaxInvalid }
  /\ done = {}
  /\ sumBatch = 0
  /\ lastCompleted = 0
  /\ interrupted = FALSE
  /\ cut_batch = 0
  /\ finished_at = 0
  /\ seen_kinds = {}

AutoIdle ==
  /\ file = NoFile
  /\ mem = NoFile
  /\ apc = "stopped"
  /\ page = 0
  /\ batchLen = 0
  /\ runStart = 0
  /\ urlValid = [i \in 1..NumUrls |-> TRUE]
  /\ done = {}
  /\ sumBatch = 0
  /\ lastCompleted = 0
  /\ interrupted = FALSE
  /\ cut_batch = 0
  /\ finished_at = 0
  /\ seen_kinds = {}

\* One completed batch enters the history.
Completed(pg, n) ==
  /\ done' = done \cup {pg}
  /\ sumBatch' = sumBatch + n
  /\ lastCompleted' = pg

\* AutoBatchCrawler.__init__ and run_auto_crawl up to its loop: load_progress,
\* show_startup_info (False when the count is 0 or its query fails),
\* mark_crawl_start.
StartRun ==
  /\ apc = "stopped"
  /\ LoadProgress(file).current_page <= MaxPage
  /\ \E countOk \in BOOLEAN :
       LET pd0   == LoadProgress(file)
           total == IF countOk THEN NumUrls ELSE 0
           pd1   == [pd0 EXCEPT !.is_running = TRUE]
       IN  IF total = 0
           THEN /\ file' = FileAfterLoad(file)
                /\ UNCHANGED <<mem, apc, page, runStart>>
           ELSE /\ file' = SaveProgress(pd1)
                /\ mem' = pd1
                /\ apc' = "loop"
                /\ page' = pd1.current_page
                /\ runStart' = pd1.current_page
  /\ cut_batch' = 0
  /\ finished_at' = 0
  /\ UNCHANGED <<batchLen, urlValid, done, sumBatch, lastCompleted, interrupted, seen_kinds>>
  /\ UNCHANGED notAuto

\* crawl_single_batch up to "await crawler.crawl_urls_batch": the URL read
\* (an exception of get_session or of the query gives []), the finished
\* result for an empty list, create_crawl_session (an exception gives the
\* all-failed result); and, when the batch ends here, the rest of the loop
\* body: update_page_progress, the finished check, mark_crawl_stop.
CrawlSingleBatchBegin ==
  /\ apc = "loop"
  /\ \E readOk \in BOOLEAN, createOk \in BOOLEAN :
       LET n == IF readOk THEN BatchLenOf(page, urlValid) ELSE 0
       IN  \/ /\ n = 0
              /\ createOk
              /\ file' = SaveProgress([UpdatePageProgress(mem, page, FinishedResult)
                                         EXCEPT !.is_running = FALSE])
              /\ mem' = NoFile
              /\ apc' = "stopped"
              /\ page' = 0
              /\ runStart' = 0
              /\ finished_at' = page
              /\ UNCHANGED <<batchLen, done, sumBatch, lastCompleted, seen_kinds>>
           \/ /\ n > 0
              /\ ~createOk
              /\ file' = FileAfterUpdate(file, mem, page, ExceptionResult(n))
              /\ mem' = UpdatePageProgress(mem, page, ExceptionResult(n))
              /\ apc' = "sleep"
              /\ page' = page + 1
              /\ Completed(page, n)
              /\ seen_kinds' = seen_kinds \cup {"raised"}
              /\ UNCHANGED <<batchLen, runStart, finished_at>>
           \/ /\ n > 0
              /\ createOk
              /\ apc' = "crawling"
              /\ batchLen' = n
              /\ UNCHANGED <<file, mem, page, runStart, done, sumBatch, lastCompleted,
                              finished_at, seen_kinds>>
  /\ UNCHANGED <<urlValid, interrupted, cut_batch>>
  /\ UNCHANGED notAuto

\* the outcome of one URL in a batch: its task raised, its page was fetched
\* and stored, its page was fetched and the store raised, or its fetch failed
ResultKinds ==
  {"exception", "stored", "store_failed", "not_success"}

\* A variant of CountStep whose store failure leaves successful_count as it is.
CountStepNoDecrement(acc, kind) ==
  IF kind = "stored" \/ kind = "store_failed"
  THEN [successful |-> acc.successful + 1,
        failed |-> acc.failed + (IF kind = "store_failed" THEN 1 ELSE 0)]
  ELSE [acc EXCEPT !.failed = @ + 1]

\* one turn of the loop over batch_results in crawl_batch
CountStep(acc, kind) ==
  IF kind = "exception" THEN [acc EXCEPT !.failed = @ + 1]
  ELSE IF kind = "stored" THEN [acc EXCEPT !.successful = @ + 1]
  ELSE IF kind = "store_failed"
       THEN [successful |-> (acc.successful + 1) - 1, failed |-> acc.failed + 1]
  ELSE [acc EXCEPT !.failed = @ + 1]

RECURSIVE CountResults(_, _, _)
CountResults(outs, i, acc) ==
  IF i > Len(outs) THEN acc
  ELSE CountResults(outs, i + 1, CountStep(acc, outs[i]))

\* the 'successful' and 'failed' of the dict crawl_urls_batch returns:
\* counted per URL as crawl_batch counts them
CrawlUrlsBatch(outs) ==
  CountResults(outs, 1, [successful |-> 0, failed |-> 0])

\* The awaited crawl_urls_batch ends: it returns its counts or raises;
\* finish_crawl_session may raise too (its get_session can fail).  Then
\* crawl_single_batch returns and the loop body goes on with
\* update_page_progress and current_page += 1.
CrawlUrlsBatchEnd ==
  /\ apc = "crawling"
  /\ \E returns \in BOOLEAN, outs \in [1..batchLen -> ResultKinds] :
       LET counts == CrawlUrlsBatch(outs)
           res    == IF returns
                     THEN NormalResult(batchLen, counts.successful, counts.failed)
                     ELSE ExceptionResult(batchLen)
       IN  /\ file' = FileAfterUpdate(file, mem, page, res)
           /\ mem' = UpdatePageProgress(mem, page, res)
           /\ seen_kinds' = seen_kinds \cup
                              (IF returns THEN { outs[i] : i \in 1..batchLen }
                               ELSE {"raised"})
  /\ apc' = "sleep"
  /\ page' = page + 1
  /\ batchLen' = 0
  /\ Completed(page, batchLen)
  /\ UNCHANGED <<runStart, urlValid, interrupted, cut_batch, finished_at>>
  /\ UNCHANGED notAuto

\* "await asyncio.sleep(3.0)" returns
SleepEnd ==
  /\ apc = "sleep"
  /\ apc' = "loop"
  /\ UNCHANGED <<file, mem, page, batchLen, runStart, urlValid, done, sumBatch, lastCompleted,
                 interrupted, cut_batch, finished_at, seen_kinds>>
  /\ UNCHANGED notAuto

\* The run is interrupted while it is suspended in an await (KeyboardInterrupt
\* or cancellation): the finally clause runs mark_crawl_stop.
Interrupt ==
  /\ apc \in {"crawling", "sleep"}
  /\ file' = SaveProgress([mem EXCEPT !.is_running = FALSE])
  /\ mem' = NoFile
  /\ apc' = "stopped"
  /\ page' = 0
  /\ batchLen' = 0
  /\ runStart' = 0
  /\ interrupted' = TRUE
  /\ cut_batch' = IF apc = "crawling" THEN page ELSE 0
  /\ UNCHANGED <<urlValid, done, sumBatch, lastCompleted, finished_at, seen_kinds>>
  /\ UNCHANGED notAuto

\* The process is killed: nothing more is written.
Crash ==
  /\ apc # "stopped"
  /\ mem' = NoFile
  /\ apc' = "stopped"
  /\ page' = 0
  /\ batchLen' = 0
  /\ runStart' = 0
  /\ interrupted' = TRUE
  /\ UNCHANGED <<file, urlValid, done, sumBatch, lastCompleted, cut_batch, finished_at,
                 seen_kinds>>
  /\ UNCHANGED notAuto

\* "--reset": reset_progress while no run is active
ResetProgress ==
  /\ apc = "stopped"
  /\ file.exists
  /\ file' = SaveProgress(DefaultData)
  /\ done' = {}
  /\ sumBatch' = 0
  /\ lastCompleted' = 0
  /\ interrupted' = FALSE
  /\ cut_batch' = 0
  /\ finished_at' = 0
  /\ seen_kinds' = {}
  /\ UNCHANGED <<mem, apc, page, batchLen, runStart, urlValid>>
  /\ UNCHANGED notAuto

AutoNext ==
  \/ StartRun
  \/ CrawlSingleBatchBegin
  \/ CrawlUrlsBatchEnd
  \/ SleepEnd
  \/ Interrupt
  \/ Crash
  \/ ResetProgress

(***************************************************************************)
(* FETCH: BacklinkDiscoverer.fetch_page_with_retry (rat/backlink.py)        *)
(***************************************************************************)

\* self.max_retries
max_retries ==
  3

\* The fetch is not followed beyond this many session.get calls.
MaxRequests ==
  5

\* What one "async with session.get(...)" can meet. A 2xx status whose body
\* read fails raises aiohttp.ClientPayloadError, a ClientError, inside the
\* same try. One session.get follows redirects by itself
\* (allow_redirects=True) and is one request of the fetch.
Responses ==
  {"2xx", "2xx_body_error", "429", "401", "403", "404", "502", "503", "504",
   "500", "client_error", "timeout", "exception"}

\* A variant of NextAttempt in which a 429 does not use up an attempt.
NextAttemptRepeatsOn429(a, r) ==
  IF r = "429" THEN a ELSE a + 1

\* the value of attempt in the next iteration of the for loop
NextAttempt(a, r) ==
  a + 1

\* What the body of the loop does with a response: "return_page",
\* "return_none", "continue", or "rate_wait" (sleep 10-20 s, then continue).
Handle(r, a, social) ==
  CASE r = "2xx" -> "return_page"
    [] r = "429" -> "rate_wait"
    [] r \in {"401", "403"} ->
         IF social /\ a < max_retries - 1 THEN "continue"
         ELSE IF a = max_retries - 1 THEN "return_none" ELSE "continue"
    [] r = "404" -> "return_none"
    [] r \in {"502", "503", "504"} -> "continue"
    [] r = "500" ->
         IF a = max_retries - 1 THEN "return_none" ELSE "continue"
    [] r \in {"2xx_body_error", "client_error", "timeout"} ->
         IF a = max_retries - 1 THEN "return_none" ELSE "continue"
    [] r = "exception" -> "return_none"

FetchInit ==
  /\ fpc = "idle"
  /\ attempt = 0
  /\ is_social \in BOOLEAN
  /\ requests = 0
  /\ responses = <<>>
  /\ fresult = "none"

FetchIdle ==
  /\ fpc = "idle"
  /\ attempt = 0
  /\ is_social = FALSE
  /\ requests = 0
  /\ responses = <<>>
  /\ fresult = "none"

\* "continue", or the end of an iteration: the for loop takes the next value
\* of range(max_retries), or is exhausted and the function returns None.
LoopContinue(r) ==
  LET a == NextAttempt(attempt, r)
  IN  /\ attempt' = a
      /\ IF a < max_retries
         THEN /\ fpc' = "backoff"
              /\ fresult' = fresult
         ELSE /\ fpc' = "done"
              /\ fresult' = "fail"

\* fetch_page_with_retry is called for a URL; the first iteration has no
\* backoff sleep.
FetchStart ==
  /\ fpc = "idle"
  /\ \E social \in BOOLEAN : is_social' = social
  /\ fpc' = "top"
  /\ attempt' = 0
  /\ requests' = 0
  /\ responses' = <<>>
  /\ fresult' = "none"
  /\ UNCHANGED notFetch

\* "if attempt > 0: await asyncio.sleep(retry_delay)" returns.
BackoffEnd ==
  /\ fpc = "backoff"
  /\ fpc' = "top"
  /\ UNCHANGED <<attempt, is_social, requests, responses, fresult>>
  /\ UNCHANGED notFetch

\* session.get(url, **request_kwargs) is issued.
SendRequest ==
  /\ fpc = "top"
  /\ requests < MaxRequests
  /\ requests' = requests + 1
  /\ fpc' = "wait"
  /\ UNCHANGED <<attempt, is_social, responses, fresult>>
  /\ UNCHANGED notFetch

\* The request ends with a response or an exception; the body of the
\* "async with" and the except clauses handle it.
Respond ==
  /\ fpc = "wait"
  /\ \E r \in Responses :
       /\ responses' = Append(responses, r)
       /\ LET h == Handle(r, attempt, is_social)
          IN  CASE h = "return_page" ->
                     /\ fpc' = "done"
                     /\ fresult' = "page"
                     /\ UNCHANGED attempt
                [] h = "return_none" ->
                     /\ fpc' = "done"
                     /\ fresult' = "fail"
                     /\ UNCHANGED attempt
                [] h = "rate_wait" ->
                     /\ fpc' = "rate_wait"
                     /\ UNCHANGED <<attempt, fresult>>
                [] h = "continue" ->
                     LoopContinue(r)
  /\ UNCHANGED <<is_social, requests>>
  /\ UNCHANGED notFetch

\* The 429 branch: "await asyncio.sleep(wait_time)" returns, then "continue".
RateWaitEnd ==
  /\ fpc = "rate_wait"
  /\ LoopContinue("429")
  /\ UNCHANGED <<is_social, requests, responses>>
  /\ UNCHANGED notFetch

\* The caller has the result; the next fetch can start.
FetchReturn ==
  /\ fpc = "done"
  /\ fpc' = "idle"
  /\ attempt' = 0
  /\ requests' = 0
  /\ responses' = <<>>
  /\ fresult' = "none"
  /\ UNCHANGED is_social
  /\ UNCHANGED notFetch

FetchNext ==
  \/ FetchStart
  \/ BackoffEnd
  \/ SendRequest
  \/ Respond
  \/ RateWaitEnd
  \/ FetchReturn

(***************************************************************************)
(* BATCH: BatchBacklinkCrawler.fetch_page / crawl_batch / run_batch_crawl   *)
(* (rat/batch_crawler.py)                                                  *)
(***************************************************************************)

\* self.max_concurrent
max_concurrent ==
  2

\* The URLs of one batch: one more than the semaphore admits.
BatchUrls ==
  1..(max_concurrent + 1)

\* The methods of CrawlerActivityLogger (rat/logger.py).
CrawlerLoggerMethods ==
  {"log_crawl_start", "log_page_crawl", "log_crawl_end", "log_backlink_discovery"}

\* log_manager.crawler_logger.log_url_crawled(...) raises AttributeError
\* when the logger has no such method.
LogUrlCrawledRaises ==
  "log_url_crawled" \notin CrawlerLoggerMethods

\* the statuses a request of fetch_page can meet; 0 is no response at all
HttpStatuses ==
  {0, 200, 404, 503}

NoBatchResult ==
  [urls_processed |-> 0, successful |-> 0, failed |-> 0]

\* A variant of SemaphoreFree that admits every task.
SemaphoreAlwaysFree(v) ==
  TRUE

\* "async with semaphore" can enter
SemaphoreFree(v) ==
  v > 0

\* the tasks whose session.get is awaiting its response
InFlight ==
  { u \in BatchUrls : tpc[u] = "get" }

\* the tasks inside "async with semaphore"
Holders ==
  { u \in BatchUrls : tpc[u] \in {"sleep", "get"} }

BatchIdle ==
  /\ bphase = "idle"
  /\ tpc = [u \in BatchUrls |-> "none"]
  /\ batch_results = [u \in BatchUrls |-> "none"]
  /\ semaphore = 0
  /\ batch_result = NoBatchResult
  /\ stored = {}
  /\ run_outcome = "running"
  /\ statuses = [u \in BatchUrls |-> <<>>]

BatchInit ==
  BatchIdle

\* crawl_batch is called: the semaphore and one task per URL are created and
\* gather is awaited.
CrawlBatchStart ==
  /\ bphase = "idle"
  /\ bphase' = "gathering"
  /\ tpc' = [u \in BatchUrls |-> "pending"]
  /\ batch_results' = [u \in BatchUrls |-> "none"]
  /\ semaphore' = max_concurrent
  /\ batch_result' = NoBatchResult
  /\ stored' = {}
  /\ run_outcome' = "running"
  /\ statuses' = [u \in BatchUrls |-> <<>>]
  /\ UNCHANGED notBatch

\* A task enters "async with semaphore" and starts asyncio.sleep(self.delay).
SemaphoreAcquire ==
  /\ bphase = "gathering"
  /\ \E u \in BatchUrls :
       /\ tpc[u] = "pending"
       /\ SemaphoreFree(semaphore)
       /\ tpc' = [tpc EXCEPT ![u] = "sleep"]
       /\ semaphore' = semaphore - 1
  /\ UNCHANGED <<bphase, batch_results, batch_result, stored, run_outcome, statuses>>
  /\ UNCHANGED notBatch

\* The sleep returns and fetch_page runs up to its session.get: the lines
\* before its try can raise (the task ends with an exception), can_fetch_url
\* can refuse (a result with crawl_success False), otherwise the request is
\* issued.
FetchPageBegin ==
  /\ bphase = "gathering"
  /\ \E u \in BatchUrls, o \in {"exception", "failed", "get"} :
       /\ tpc[u] = "sleep"
       /\ IF o = "get"
          THEN /\ tpc' = [tpc EXCEPT ![u] = "get"]
               /\ UNCHANGED <<batch_results, semaphore>>
          ELSE /\ tpc' = [tpc EXCEPT ![u] = "done"]
               /\ batch_results' = [batch_results EXCEPT ![u] = o]
               /\ semaphore' = semaphore + 1
  /\ UNCHANGED <<bphase, batch_result, stored, run_outcome, statuses>>
  /\ UNCHANGED notBatch

\* What fetch_page returns for the status its one session.get met (0: no
\* response, a timeout or a client error): "if response.status != 200"
\* returns the result with an error message and crawl_success False; a 200
\* whose body is read and parsed gives crawl_success True, a 200 whose read
\* raises gives crawl_success False.
FetchPageResult(status, bodyOk) ==
  IF status = 200 /\ bodyOk THEN "success" ELSE "failed"

\* The request ends: status 200 read and parsed (crawl_success True), or a
\* non-200 status, a timeout, a client error or any other exception, which
\* fetch_page turns into a result with crawl_success False. The task leaves
\* the semaphore.
FetchPageEnd ==
  /\ bphase = "gathering"
  /\ \E u \in BatchUrls, status \in HttpStatuses, bodyOk \in BOOLEAN :
       /\ tpc[u] = "get"
       /\ status # 200 => bodyOk
       /\ tpc' = [tpc EXCEPT ![u] = "done"]
       /\ statuses' = [statuses EXCEPT ![u] = Append(@, status)]
       /\ batch_results' = [batch_results EXCEPT ![u] = FetchPageResult(status, bodyOk)]
       /\ semaphore' = semaphore + 1
  /\ UNCHANGED <<bphase, batch_result, stored, run_outcome>>
  /\ UNCHANGED notBatch

\* gather returns and the result loop runs, without suspension: an exception
\* result counts as failed; a successful result is logged with
\* log_url_crawled, outside any try, and then stored inside a try (a failed
\* store counts as failed); any other result counts as failed. An
\* exception of the loop leaves crawl_batch and is caught by
\* run_batch_crawl, which finishes the session as failed and returns an
\* error.
ProcessResults ==
  /\ bphase = "gathering"
  /\ \A u \in BatchUrls : tpc[u] = "done"
  /\ LET succ == { u \in BatchUrls : batch_results[u] = "success" }
     IN  IF succ # {} /\ LogUrlCrawledRaises
         THEN /\ bphase' = "raised"
              /\ run_outcome' = "error"
              /\ UNCHANGED <<batch_result, stored>>
         ELSE \E storeFails \in SUBSET succ :
                /\ bphase' = "returned"
                /\ stored' = succ \ storeFails
                /\ batch_result' =
                     [urls_processed |-> Cardinality(BatchUrls),
                      successful |-> Cardinality(succ \ storeFails),
                      failed |-> Cardinality(BatchUrls \ succ)
                                   + Cardinality(storeFails)]
                /\ UNCHANGED run_outcome
  /\ UNCHANGED <<tpc, batch_results, semaphore, statuses>>
  /\ UNCHANGED notBatch

\* run_batch_crawl goes on to its next batch, or, after an error, the
\* crawler is run again.
BatchNext ==
  /\ bphase \in {"returned", "raised"}
  /\ bphase' = "idle"
  /\ tpc' = [u \in BatchUrls |-> "none"]
  /\ batch_results' = [u \in BatchUrls |-> "none"]
  /\ semaphore' = 0
  /\ batch_result' = NoBatchResult
  /\ stored' = {}
  /\ run_outcome' = "running"
  /\ statuses' = [u \in BatchUrls |-> <<>>]
  /\ UNCHANGED notBatch

NextBatch ==
  \/ CrawlBatchStart
  \/ SemaphoreAcquire
  \/ FetchPageBegin
  \/ FetchPageEnd
  \/ ProcessResults
  \/ BatchNext

(***************************************************************************)
(* CRAWL: EnhancedProductionCrawler.start_crawl_session / needs_recrawl /   *)
(* crawl_page_content / comprehensive_crawl (crawler.py) over               *)
(* WebsiteCrawlerDatabase (crawlerdb.py)                                    *)
(***************************************************************************)

NumCrawlUrls ==
  2

NumHashes ==
  2

\* config['max_pages']
max_pages ==
  2

\* config['max_depth']
max_depth ==
  1

\* config['recrawl_days']
recrawl_days ==
  1

\* The clock is not followed beyond this day.
MaxDay ==
  2

\* "if len(self.crawled_pages) % 10 == 0"
DepthEvery ==
  10

\* The ROBOTS_BLOCKED rows of one URL are not counted beyond this number.
MaxErrors ==
  2

CrawlUrls ==
  1..NumCrawlUrls

Hashes ==
  1..NumHashes

\* get_last_crawl_time returns None when the table has no row for the url
NoTime ==
  -1

NoRow ==
  [crawl_time |-> NoTime, content_hash |-> 0]

NoGet ==
  [url |-> 0, day |-> NoTime, prev |-> NoTime]

NoDup ==
  [url |-> 0, hash |-> 0, had_row |-> FALSE]

\* the tags of the page served at url that the checks below look for
PageTags(url) ==
  IF url \in noindex THEN {"title", "meta"} ELSE {"title"}

\* "for script in soup(['script', 'style', 'meta', 'link']): script.decompose()"
SoupTags(url) ==
  PageTags(url) \ {"script", "style", "meta", "link"}

\* soup.find('meta', attrs={'name': 'robots'}) finds the tag, whose content
\* has 'noindex'
NoindexSeen(url) ==
  "meta" \in SoupTags(url)

\* the table has a row for the url
HasRow(d, url) ==
  d[url].crawl_time # NoTime

\* The heap entries: seeds have priority 0, discovered links 1 + current_depth.
Entries ==
  (0..(1 + max_depth)) \X CrawlUrls

\* tuple comparison of heapq: by priority, then by url
EntryLeq(e1, e2) ==
  \/ e1[1] < e2[1]
  \/ e1[1] = e2[1] /\ e1[2] <= e2[2]

FrontierEntries(f) ==
  { e \in Entries : f[e] > 0 }

\* heapq.heappop: the smallest entry
HeapTop(f) ==
  CHOOSE e \in FrontierEntries(f) : \A e2 \in FrontierEntries(f) : EntryLeq(e, e2)

HeapPop(f) ==
  [f EXCEPT ![HeapTop(f)] = @ - 1]

\* heapq.heappush of entry (prio, u) for every u of us
HeapPushAll(f, prio, us) ==
  [e \in Entries |-> IF e[1] = prio /\ e[2] \in us THEN f[e] + 1 ELSE f[e]]

\* needs_recrawl(url) at day t over the table d
NeedsRecrawl(d, t, url) ==
  IF d[url].crawl_time = NoTime THEN TRUE
  ELSE t - d[url].crawl_time >= recrawl_days

\* "url in self.visited_urls and not self.needs_recrawl(url)"
RecentlyCrawled(v, d, t, url) ==
  url \in v /\ ~NeedsRecrawl(d, t, url)

\* the condition of comprehensive_crawl's while loop
LoopCondition ==
  /\ FrontierEntries(url_frontier) # {}
  /\ crawled_pages < max_pages
  /\ current_depth <= max_depth

CrawlIdle ==
  /\ cpc = "new"
  /\ visited_urls = {}
  /\ content_hashes = {}
  /\ url_frontier = [e \in Entries |-> 0]
  /\ crawled_pages = 0
  /\ current_depth = 0
  /\ pageTable = [u \in CrawlUrls |-> NoRow]
  /\ now = 0
  /\ disallowed = {}
  /\ lastOk = [u \in CrawlUrls |-> NoTime]
  /\ lastGet = NoGet
  /\ noindex = {}
  /\ robots_errors = [u \in CrawlUrls |-> 0]
  /\ first_body = [h \in Hashes |-> 0]
  /\ lastDup = NoDup
  /\ lastLogged = "none"

\* EnhancedProductionCrawler.__init__ over an empty database
CrawlInit ==
  /\ cpc = "new"
  /\ visited_urls = {}
  /\ content_hashes = {}
  /\ url_frontier = [e \in Entries |-> 0]
  /\ crawled_pages = 0
  /\ current_depth = 0
  /\ pageTable = [u \in CrawlUrls |-> NoRow]
  /\ now = 0
  /\ disallowed \in SUBSET CrawlUrls
  /\ lastOk = [u \in CrawlUrls |-> NoTime]
  /\ lastGet = NoGet
  /\ noindex \in SUBSET CrawlUrls
  /\ robots_errors = [u \in CrawlUrls |-> 0]
  /\ first_body = [h \in Hashes |-> 0]
  /\ lastDup = NoDup
  /\ lastLogged = "none"

\* comprehensive_crawl calls start_crawl_session: every seed that is not in
\* visited_urls enters the frontier with priority 0.
StartCrawlSession ==
  /\ cpc = "new"
  /\ \E seeds \in SUBSET CrawlUrls :
       /\ seeds # {}
       /\ url_frontier' = HeapPushAll(url_frontier, 0, seeds \ visited_urls)
  /\ cpc' = "crawling"
  /\ UNCHANGED <<visited_urls, content_hashes, crawled_pages, current_depth, pageTable,
                 now, disallowed, lastOk, lastGet, noindex, robots_errors, first_body,
                 lastDup, lastLogged>>
  /\ UNCHANGED notCrawl

\* One iteration of comprehensive_crawl's while loop: heappop,
\* crawl_page_content (the skip of a recently crawled URL, the robots check
\* with its ROBOTS_BLOCKED row, the GET, the redirect check on response.url,
\* the content-hash check, the parse, the noindex check, the store,
\* visited_urls.add of the final URL), the push of the discovered links, and
\* the depth step.  crawl_page_content removes every meta and link tag from
\* the soup before it looks for the canonical link and the robots meta tag.
\* The HTTP_ERROR and PARSE_ERROR rows are followed by lastLogged only.
CrawlIteration ==
  /\ cpc = "crawling"
  /\ LoopCondition
  /\ LET url == HeapTop(url_frontier)[2]
         f1  == HeapPop(url_frontier)
     IN  IF RecentlyCrawled(visited_urls, pageTable, now, url)
         THEN /\ url_frontier' = f1
              /\ lastGet' = NoGet
              /\ lastDup' = NoDup
              /\ lastLogged' = "none"
              /\ UNCHANGED <<visited_urls, content_hashes, crawled_pages, pageTable,
                             lastOk, robots_errors, first_body>>
         ELSE IF url \in disallowed
         THEN /\ robots_errors[url] < MaxErrors
              /\ robots_errors' = [robots_errors EXCEPT ![url] = @ + 1]
              /\ url_frontier' = f1
              /\ lastGet' = NoGet
              /\ lastDup' = NoDup
              /\ lastLogged' = "ROBOTS_BLOCKED"
              /\ UNCHANGED <<visited_urls, content_hashes, crawled_pages, pageTable,
                             lastOk, first_body>>
         ELSE /\ lastGet' = [url |-> url, day |-> now, prev |-> lastOk[url]]
              /\ UNCHANGED robots_errors
              /\ \/ \* requests.RequestException: the GET failed
                    /\ url_frontier' = f1
                    /\ lastDup' = NoDup
                    /\ lastLogged' = "HTTP_ERROR"
                    /\ UNCHANGED <<visited_urls, content_hashes, crawled_pages,
                                   pageTable, lastOk, first_body>>
                 \/ \* the GET succeeded: response.url is final, the body hashes to h
                    /\ lastOk' = [lastOk EXCEPT ![url] = now]
                    /\ \E final \in CrawlUrls, h \in Hashes :
                         IF final # url /\ RecentlyCrawled(visited_urls, pageTable, now, final)
                         THEN /\ url_frontier' = f1
                              /\ lastDup' = NoDup
                              /\ lastLogged' = "none"
                              /\ UNCHANGED <<visited_urls, content_hashes,
                                             crawled_pages, pageTable, first_body>>
                         ELSE IF h \in content_hashes
                         THEN /\ url_frontier' = f1
                              /\ lastDup' = [url |-> final, hash |-> h,
                                             had_row |-> HasRow(pageTable, final)]
                              /\ lastLogged' = "none"
                              /\ UNCHANGED <<visited_urls, content_hashes,
                                             crawled_pages, pageTable, first_body>>
                         ELSE /\ content_hashes' = content_hashes \cup {h}
                              /\ first_body' = [first_body EXCEPT
                                                  ![h] = IF @ = 0 THEN final ELSE @]
                              /\ lastDup' = NoDup
                              /\ \/ \* an exception while parsing
                                    /\ url_frontier' = f1
                                    /\ lastLogged' = "PARSE_ERROR"
                                    /\ UNCHANGED <<visited_urls, crawled_pages, pageTable>>
                                 \/ \* the robots meta tag is found and has noindex
                                    /\ NoindexSeen(final)
                                    /\ url_frontier' = f1
                                    /\ lastLogged' = "none"
                                    /\ UNCHANGED <<visited_urls, crawled_pages, pageTable>>
                                 \/ \* the page is stored and its links are pushed
                                    /\ ~NoindexSeen(final)
                                    /\ lastLogged' = "none"
                                    /\ \E links \in SUBSET CrawlUrls :
                                         LET v2 == visited_urls \cup {final}
                                             d2 == [pageTable EXCEPT ![final] =
                                                      [crawl_time |-> now,
                                                       content_hash |-> h]]
                                             push == { l \in links :
                                                         l \notin v2 \/ NeedsRecrawl(d2, now, l) }
                                         IN  /\ visited_urls' = v2
                                             /\ pageTable' = d2
                                             /\ crawled_pages' = crawled_pages + 1
                                             /\ url_frontier' =
                                                  HeapPushAll(f1, 1 + current_depth, push)
  /\ current_depth' = IF crawled_pages' % DepthEvery = 0
                      THEN current_depth + 1 ELSE current_depth
  /\ UNCHANGED <<cpc, now, disallowed, noindex>>
  /\ UNCHANGED notCrawl

\* The while loop ends.
EndContentPhase ==
  /\ cpc = "crawling"
  /\ ~LoopCondition
  /\ cpc' = "ended"
  /\ UNCHANGED <<visited_urls, content_hashes, url_frontier, crawled_pages,
                 current_depth, pageTable, now, disallowed, lastOk, lastGet, noindex,
                 robots_errors, first_body, lastDup, lastLogged>>
  /\ UNCHANGED notCrawl

\* A day passes (the crawl sleeps after every page).
Tick ==
  /\ now < MaxDay
  /\ now' = now + 1
  /\ UNCHANGED <<cpc, visited_urls, content_hashes, url_frontier, crawled_pages,
                 current_depth, pageTable, disallowed, lastOk, lastGet, noindex,
                 robots_errors, first_body, lastDup, lastLogged>>
  /\ UNCHANGED notCrawl

\* A new crawler is constructed for the next run: visited_urls and
\* content_hashes are loaded from the table.
NewRun ==
  /\ cpc = "ended"
  /\ cpc' = "new"
  /\ visited_urls' = { u \in CrawlUrls : pageTable[u].crawl_time # NoTime }
  /\ content_hashes' = { pageTable[u].content_hash : u \in { w \in CrawlUrls : pageTable[w].crawl_time # NoTime } }
  /\ url_frontier' = [e \in Entries |-> 0]
  /\ crawled_pages' = 0
  /\ current_depth' = 0
  /\ lastOk' = [u \in CrawlUrls |-> NoTime]
  /\ lastGet' = NoGet
  /\ lastDup' = NoDup
  /\ lastLogged' = "none"
  /\ UNCHANGED <<pageTable, now, disallowed, noindex, robots_errors, first_body>>
  /\ UNCHANGED notCrawl

CrawlNext ==
  \/ StartCrawlSession
  \/ CrawlIteration
  \/ EndContentPhase
  \/ Tick
  \/ NewRun

(***************************************************************************)
(* STORE: the session and page tables of the crawl backends                *)
(* (rat/sqlalchemy_database.py over rat/models.py) and of the SQLite file   *)
(* of WebsiteCrawlerDatabase (crawlerdb.py)                                 *)
(***************************************************************************)

\* How many distinct URLs are stored, and how many sessions one crawl backend
\* and the SQLite file get.
NumStoreUrls ==
  2

MaxSessions ==
  1

MaxSqliteSessions ==
  2

StoreUrls ==
  1..NumStoreUrls

\* databaselist1 as a set
CrawlDbSet ==
  {<<"crawl", i>> : i \in 1..NumCrawlDBs}

\* CrawlSession.status: 'running' by default, then what finish_crawl_session
\* is given by its callers
TerminalStatuses ==
  {"completed", "failed"}

SessionStatuses ==
  {"running"} \cup TerminalStatuses

NoTerminal ==
  "none"

\* a usage under both limits, and one at the daily write limit
UnderQuota ==
  [kind |-> "dict", storage |-> 0, writes |-> 9500000]

OverQuota ==
  [kind |-> "dict", storage |-> 0, writes |-> DAILY_WRITE_LIMIT]

\* a crawled_pages row, reduced to the columns the constraints are about
PageRow(url, session_id) ==
  [url |-> url, session_id |-> session_id]

\* session.get(CrawlSession, session_id) finds a row
SessionExists(tbl, session_id) ==
  session_id \in 1..Len(tbl)

\* select(CrawledPage).where(CrawledPage.url == url) finds a row
UrlStored(rows, url) ==
  \E r \in rows : r.url = url

StoreIdle ==
  /\ store_usage = [b \in CrawlDbSet |-> UnderQuota]
  /\ store_cycle = 1
  /\ crawl_sessions = [b \in CrawlDbSet |-> <<>>]
  /\ page_rows = [b \in CrawlDbSet |-> {}]
  /\ foreign_keys = FALSE
  /\ first_terminal = [b \in CrawlDbSet |-> <<>>]
  /\ finish_called = {}

\* Empty tables.  The engines are created without a foreign_keys pragma, so
\* whether FOREIGN KEY constraints are enforced is the server's choice.
StoreInit ==
  /\ store_usage \in [CrawlDbSet -> {UnderQuota, OverQuota}]
  /\ store_cycle = 1
  /\ crawl_sessions = [b \in CrawlDbSet |-> <<>>]
  /\ page_rows = [b \in CrawlDbSet |-> {}]
  /\ foreign_keys \in BOOLEAN
  /\ first_terminal = [b \in CrawlDbSet |-> <<>>]
  /\ finish_called = {}

\* The provider's usage of one crawl backend crosses a limit, or resets.
StoreUsageChange ==
  /\ \E b \in CrawlDbSet :
       store_usage' = [store_usage EXCEPT
                         ![b] = IF store_usage[b] = UnderQuota THEN OverQuota
                                ELSE UnderQuota]
  /\ UNCHANGED <<store_cycle, crawl_sessions, page_rows, foreign_keys, first_terminal,
                 finish_called>>
  /\ UNCHANGED notStore

\* create_crawl_session: a 'running' row in the backend _choose_db returns;
\* the caller gets (id, db name).  RuntimeError when no backend is available.
StoreCreateCrawlSession ==
  /\ LET r == ChooseDb("crawl", store_cycle, store_usage)
     IN  /\ store_cycle' = r.pos
         /\ IF r.outcome = "ok"
            THEN /\ Len(crawl_sessions[r.db]) < MaxSessions
                 /\ crawl_sessions' =
                      [crawl_sessions EXCEPT ![r.db] = Append(@, "running")]
                 /\ first_terminal' =
                      [first_terminal EXCEPT ![r.db] = Append(@, NoTerminal)]
            ELSE UNCHANGED <<crawl_sessions, first_terminal>>
  /\ UNCHANGED <<store_usage, page_rows, foreign_keys, finish_called>>
  /\ UNCHANGED notStore

\* store_crawled_page(page_data, session_id, db_name): RuntimeError when the
\* named backend is over quota, ValueError when it has no such session; a
\* row with the URL is updated in place and keeps its session_id, otherwise
\* a row is inserted.
StoreCrawledPage ==
  /\ \E b \in CrawlDbSet, session_id \in 1..MaxSessions, url \in StoreUrls :
       IF /\ CheckQuota(store_usage[b])
          /\ SessionExists(crawl_sessions[b], session_id)
          /\ ~UrlStored(page_rows[b], url)
       THEN page_rows' = [page_rows EXCEPT ![b] = @ \cup {PageRow(url, session_id)}]
       ELSE UNCHANGED page_rows
  /\ UNCHANGED <<store_usage, store_cycle, crawl_sessions, foreign_keys, first_terminal,
                 finish_called>>
  /\ UNCHANGED notStore

\* finish_crawl_session(session_id, status), called once by the creator of
\* the session (b, session_id): the UPDATE ... WHERE id = session_id runs on
\* the backend get_session("crawl") returns.
FinishCrawlSession ==
  /\ \E b \in CrawlDbSet, session_id \in 1..MaxSessions, status \in TerminalStatuses :
       /\ SessionExists(crawl_sessions[b], session_id)
       /\ <<b, session_id>> \notin finish_called
       /\ finish_called' = finish_called \cup {<<b, session_id>>}
       /\ LET r == ChooseDb("crawl", store_cycle, store_usage)
          IN  /\ store_cycle' = r.pos
              /\ IF r.outcome = "ok" /\ SessionExists(crawl_sessions[r.db], session_id)
                 THEN /\ crawl_sessions' =
                           [crawl_sessions EXCEPT ![r.db][session_id] = status]
                      /\ first_terminal' =
                           [first_terminal EXCEPT
                              ![r.db][session_id] = IF @ = NoTerminal THEN status ELSE @]
                 ELSE UNCHANGED <<crawl_sessions, first_terminal>>
  /\ UNCHANGED <<store_usage, page_rows, foreign_keys>>
  /\ UNCHANGED notStore

\* migrate_data_between_dbs(source, target, "pages") with the default limit:
\* every page of the source is added to the target with its session_id and
\* then deleted from the source.  RuntimeError when either backend is over
\* quota; an IntegrityError (the unique url, or the foreign key where it is
\* enforced) rolls both sessions back.
MigratePages ==
  /\ \E source \in CrawlDbSet, target \in CrawlDbSet :
       LET pages == page_rows[source]
       IN  IF /\ CheckQuota(store_usage[source])
              /\ CheckQuota(store_usage[target])
              /\ \A p \in pages : ~UrlStored(page_rows[target], p.url)
              /\ foreign_keys =>
                   \A p \in pages : SessionExists(crawl_sessions[target], p.session_id)
           THEN page_rows' = [b \in CrawlDbSet |->
                                IF b = source THEN {}
                                ELSE IF b = target THEN page_rows[b] \cup pages
                                ELSE page_rows[b]]
           ELSE UNCHANGED page_rows
  /\ UNCHANGED <<store_usage, store_cycle, crawl_sessions, foreign_keys, first_terminal,
                 finish_called>>
  /\ UNCHANGED notStore

SqliteInit ==
  /\ sqlite_sessions = <<>>
  /\ sqlite_pages = {}

SqliteIdle ==
  SqliteInit

\* WebsiteCrawlerDatabase.create_crawl_session
SqliteCreateCrawlSession ==
  /\ Len(sqlite_sessions) < MaxSqliteSessions
  /\ sqlite_sessions' = Append(sqlite_sessions, "running")
  /\ UNCHANGED sqlite_pages
  /\ UNCHANGED notSqlite

\* WebsiteCrawlerDatabase.store_crawled_page: INSERT OR REPLACE under the
\* table's UNIQUE(url, session_id)
SqliteStoreCrawledPage ==
  /\ \E session_id \in 1..Len(sqlite_sessions), url \in StoreUrls :
       sqlite_pages' = sqlite_pages \cup {PageRow(url, session_id)}
  /\ UNCHANGED sqlite_sessions
  /\ UNCHANGED notSqlite

\* WebsiteCrawlerDatabase.finish_crawl_session, which comprehensive_crawl
\* calls when its session ends: 'completed', or 'failed' from its handler
SqliteFinishCrawlSession ==
  /\ \E session_id \in 1..Len(sqlite_sessions), status \in TerminalStatuses :
       /\ sqlite_sessions[session_id] = "running"
       /\ sqlite_sessions' = [sqlite_sessions EXCEPT ![session_id] = status]
  /\ UNCHANGED sqlite_pages
  /\ UNCHANGED notSqlite

StoreNext ==
  \/ StoreUsageChange
  \/ StoreCreateCrawlSession
  \/ StoreCrawledPage
  \/ FinishCrawlSession
  \/ MigratePages

SqliteNext ==
  \/ SqliteCreateCrawlSession
  \/ SqliteStoreCrawledPage
  \/ SqliteFinishCrawlSession

(***************************************************************************)
(* BACKLINK STORE: SQLAlchemyDatabase.store_backlinks                      *)
(* (rat/sqlalchemy_database.py) over table backlinks (rat/models.py)       *)
(***************************************************************************)

\* How many distinct links there are, how long the stored list gets, how
\* many times it is stored, and the chunk size (5000 in the source) scaled
\* to the list length.
NumLinks ==
  2

MaxBacklinks ==
  3

MaxCalls ==
  2

chunk_size ==
  2

\* a link stands for its (source_url, target_url, anchor_text)
Links ==
  1..NumLinks

BacklinkInputs ==
  UNION {[1..n -> Links] : n \in 0..MaxBacklinks}

BacklinkDbSet ==
  {<<"backlink", i>> : i \in 1..NumBacklinkDBs}

\* backlinks[i:i + chunk_size]
Chunk(list, i) ==
  SubSeq(list, i + 1, IF i + chunk_size < Len(list) THEN i + chunk_size ELSE Len(list))

\* chunk_num = (i // chunk_size) + 1
ChunkNum(i) ==
  (i \div chunk_size) + 1

\* total_chunks = (total_backlinks + chunk_size - 1) // chunk_size
TotalChunks(list) ==
  (Len(list) + chunk_size - 1) \div chunk_size

\* how many elements of the chunk are the link k
Occurrences(chunk, k) ==
  Cardinality({j \in 1..Len(chunk) : chunk[j] = k})

\* session.add_all(batch_objects); session.commit(): one new row per element
AddAll(tbl, chunk) ==
  [k \in Links |-> tbl[k] + Occurrences(chunk, k)]

RECURSIVE SumRows(_, _)
SumRows(tbl, ks) ==
  IF ks = {} THEN 0
  ELSE LET k == CHOOSE x \in ks : TRUE
       IN  tbl[k] + SumRows(tbl, ks \ {k})

\* the number of backlinks rows over all backlink backends
RECURSIVE TotalBacklinkRows(_, _)
TotalBacklinkRows(rows, dbs) ==
  IF dbs = {} THEN 0
  ELSE LET b == CHOOSE x \in dbs : TRUE
       IN  SumRows(rows[b], Links) + TotalBacklinkRows(rows, dbs \ {b})

BacklinkIdle ==
  /\ bl_usage = [b \in BacklinkDbSet |-> UnderQuota]
  /\ bl_cycle = 1
  /\ backlink_rows = [b \in BacklinkDbSet |-> [k \in Links |-> 0]]
  /\ sb_pc = "idle"
  /\ sb_input = <<>>
  /\ sb_i = 0
  /\ sb_calls = 0
  /\ sb_skipped = {}
  /\ sb_attempted = {}
  /\ sb_failed = FALSE
  /\ rows_after_first = 0

BacklinkInit ==
  /\ bl_usage \in [BacklinkDbSet -> {UnderQuota, OverQuota}]
  /\ bl_cycle = 1
  /\ backlink_rows = [b \in BacklinkDbSet |-> [k \in Links |-> 0]]
  /\ sb_pc = "idle"
  /\ sb_input \in BacklinkInputs
  /\ sb_i = 0
  /\ sb_calls = 0
  /\ sb_skipped = {}
  /\ sb_attempted = {}
  /\ sb_failed = FALSE
  /\ rows_after_first = 0

\* The provider's usage of one backlink backend crosses a limit, or resets.
BacklinkUsageChange ==
  /\ \E b \in BacklinkDbSet :
       bl_usage' = [bl_usage EXCEPT
                      ![b] = IF bl_usage[b] = UnderQuota THEN OverQuota ELSE UnderQuota]
  /\ UNCHANGED <<bl_cycle, backlink_rows, sb_pc, sb_input, sb_i, sb_calls, sb_skipped,
                 sb_attempted, sb_failed, rows_after_first>>
  /\ UNCHANGED notBacklink

\* store_backlinks(backlinks) up to its loop: an empty list returns at once
StoreBacklinksBegin ==
  /\ sb_pc = "idle"
  /\ sb_calls < MaxCalls
  /\ sb_pc' = IF sb_input = <<>> THEN "returned" ELSE "chunk"
  /\ sb_i' = 0
  /\ sb_skipped' = {}
  /\ sb_attempted' = {}
  /\ UNCHANGED <<bl_usage, bl_cycle, backlink_rows, sb_input, sb_calls, sb_failed,
                 rows_after_first>>
  /\ UNCHANGED notBacklink

\* The loop after one chunk: the next chunk, or the end of store_backlinks
AfterChunk(i) ==
  IF i + chunk_size < Len(sb_input) THEN "chunk" ELSE "returned"

\* One iteration of the loop over the chunks.  get_session("backlink") is
\* called outside the try block, so its RuntimeError leaves store_backlinks;
\* inside the try block the chunk is added and committed, or any exception
\* rolls the session back and the loop continues.
StoreBacklinksChunk ==
  /\ sb_pc = "chunk"
  /\ LET r == ChooseDb("backlink", bl_cycle, bl_usage)
     IN  /\ bl_cycle' = r.pos
         /\ IF r.outcome # "ok"
            THEN /\ sb_pc' = "raised"
                 /\ sb_failed' = TRUE
                 /\ UNCHANGED <<backlink_rows, sb_i, sb_skipped, sb_attempted>>
            ELSE /\ sb_attempted' = sb_attempted \cup {ChunkNum(sb_i)}
                 /\ sb_i' = sb_i + chunk_size
                 /\ sb_pc' = AfterChunk(sb_i)
                 /\ \/ /\ backlink_rows' =
                            [backlink_rows EXCEPT ![r.db] = AddAll(@, Chunk(sb_input, sb_i))]
                       /\ UNCHANGED <<sb_skipped, sb_failed>>
                    \/ /\ sb_skipped' = sb_skipped \cup {ChunkNum(sb_i)}
                       /\ sb_failed' = TRUE
                       /\ UNCHANGED backlink_rows
  /\ UNCHANGED <<bl_usage, sb_input, sb_calls, rows_after_first>>
  /\ UNCHANGED notBacklink

\* The caller gets control back, by return or by the exception.
StoreBacklinksEnd ==
  /\ sb_pc \in {"returned", "raised"}
  /\ sb_pc' = "idle"
  /\ sb_calls' = sb_calls + 1
  /\ rows_after_first' = IF sb_calls = 0
                         THEN TotalBacklinkRows(backlink_rows, BacklinkDbSet)
                         ELSE rows_after_first
  /\ UNCHANGED <<bl_usage, bl_cycle, backlink_rows, sb_input, sb_i, sb_skipped,
                 sb_attempted, sb_failed>>
  /\ UNCHANGED notBacklink

BacklinkNext ==
  \/ BacklinkUsageChange
  \/ StoreBacklinksBegin
  \/ StoreBacklinksChunk
  \/ StoreBacklinksEnd

(***************************************************************************)
(* SCORE STORE: SQLAlchemyDatabase.store_pagerank_scores                   *)
(* (rat/sqlalchemy_database.py) over table pagerank_scores (rat/models.py) *)
(***************************************************************************)

\* How many URLs have a score, and after how many records the loop commits
\* (100 in the source), scaled to the input.
NumScoreUrls ==
  3

commit_every ==
  2

ScoreUrls ==
  1..NumScoreUrls

\* the key lists of the dicts: no key twice
ScoreInputs ==
  {q \in UNION {[1..n -> ScoreUrls] : n \in 0..NumScoreUrls} :
     \A i, j \in 1..Len(q) : q[i] = q[j] => i = j}

PagerankIdle ==
  /\ pr_usage = [b \in CrawlDbSet |-> UnderQuota]
  /\ pr_cycle = 1
  /\ pagerank_rows = [b \in CrawlDbSet |-> {}]
  /\ pr_pc = "idle"
  /\ pr_input = <<>>
  /\ pr_db = NoDB
  /\ stored_count = 0
  /\ pr_pending = {}
  /\ pr_error = "none"
  /\ pr_calls = 0

PagerankInit ==
  /\ pr_usage \in [CrawlDbSet -> {UnderQuota, OverQuota}]
  /\ pr_cycle = 1
  /\ pagerank_rows = [b \in CrawlDbSet |-> {}]
  /\ pr_pc = "idle"
  /\ pr_input \in ScoreInputs
  /\ pr_db = NoDB
  /\ stored_count = 0
  /\ pr_pending = {}
  /\ pr_error = "none"
  /\ pr_calls = 0

\* store_pagerank_scores(pagerank_scores) up to its loop: an empty dict
\* returns at once, get_session("crawl") may raise RuntimeError
StorePagerankBegin ==
  /\ pr_pc = "idle"
  /\ pr_calls < MaxCalls
  /\ stored_count' = 0
  /\ pr_pending' = {}
  /\ IF pr_input = <<>>
     THEN /\ pr_pc' = "returned"
          /\ pr_error' = "none"
          /\ UNCHANGED <<pr_cycle, pr_db>>
     ELSE LET r == ChooseDb("crawl", pr_cycle, pr_usage)
          IN  /\ pr_cycle' = r.pos
              /\ pr_db' = r.db
              /\ pr_pc' = IF r.outcome = "ok" THEN "loop" ELSE "raised"
              /\ pr_error' = IF r.outcome = "ok" THEN "none" ELSE "session"
  /\ UNCHANGED <<pr_usage, pagerank_rows, pr_input, pr_calls>>
  /\ UNCHANGED notPagerank

\* except SQLAlchemyError: session.rollback(); raise
PagerankRollbackAndRaise ==
  /\ pr_pending' = {}
  /\ pr_pc' = "raised"
  /\ pr_error' = "sql"
  /\ UNCHANGED <<pagerank_rows, stored_count>>

\* One record of the loop: the row of the URL is updated or added in the
\* session, and every commit_every records the session is committed; an
\* SQLAlchemyError of the select, the update or the commit rolls back what
\* is not committed and is raised again.
StorePagerankRecord ==
  /\ pr_pc = "loop"
  /\ stored_count < Len(pr_input)
  /\ \/ LET url     == pr_input[stored_count + 1]
            written == pr_pending \cup {url}
        IN  /\ stored_count' = stored_count + 1
            /\ IF (stored_count + 1) % commit_every = 0
               THEN /\ pagerank_rows' = [pagerank_rows EXCEPT ![pr_db] = @ \cup written]
                    /\ pr_pending' = {}
               ELSE /\ pr_pending' = written
                    /\ UNCHANGED pagerank_rows
            /\ UNCHANGED <<pr_pc, pr_error>>
     \/ PagerankRollbackAndRaise
  /\ UNCHANGED <<pr_usage, pr_cycle, pr_input, pr_db, pr_calls>>
  /\ UNCHANGED notPagerank

\* session.commit() after the loop, the "final commit"
StorePagerankFinalCommit ==
  /\ pr_pc = "loop"
  /\ stored_count = Len(pr_input)
  /\ \/ /\ pagerank_rows' = [pagerank_rows EXCEPT ![pr_db] = @ \cup pr_pending]
        /\ pr_pending' = {}
        /\ pr_pc' = "returned"
        /\ UNCHANGED <<stored_count, pr_error>>
     \/ PagerankRollbackAndRaise
  /\ UNCHANGED <<pr_usage, pr_cycle, pr_input, pr_db, pr_calls>>
  /\ UNCHANGED notPagerank

\* The caller gets control back, by return or by the exception.
StorePagerankEnd ==
  /\ pr_pc \in {"returned", "raised"}
  /\ pr_pc' = "idle"
  /\ pr_calls' = pr_calls + 1
  /\ UNCHANGED <<pr_usage, pr_cycle, pagerank_rows, pr_input, pr_db, stored_count,
                 pr_pending, pr_error>>
  /\ UNCHANGED notPagerank

\* The provider's usage of one crawl backend crosses a limit, or resets.
PagerankUsageChange ==
  /\ \E b \in CrawlDbSet :
       pr_usage' = [pr_usage EXCEPT
                      ![b] = IF pr_usage[b] = UnderQuota THEN OverQuota ELSE UnderQuota]
  /\ UNCHANGED <<pr_cycle, pagerank_rows, pr_pc, pr_input, pr_db, stored_count,
                 pr_pending, pr_error, pr_calls>>
  /\ UNCHANGED notPagerank

PagerankNext ==
  \/ PagerankUsageChange
  \/ StorePagerankBegin
  \/ StorePagerankRecord
  \/ StorePagerankFinalCommit
  \/ StorePagerankEnd

(***************************************************************************)
(* URL PAGES: BatchBacklinkCrawler.get_urls_batch (rat/batch_crawler.py)   *)
(* and AutoBatchCrawler.get_backlink_urls_batch                            *)
(* (rat/auto_batch_crawler.py) over SQLAlchemyDatabase.get_session         *)
(***************************************************************************)

\* How many backlink backends hold rows, how many URLs there are, the limit
\* of a page and the highest page asked for.
NumUrlBackends ==
  2

NumBatchUrls ==
  3

url_limit ==
  2

MaxUrlPage ==
  2

\* a URL stands for its place in the string order of ORDER BY url
BatchUrlIds ==
  1..NumBatchUrls

\* databaselist2
UrlPool ==
  [i \in 1..NumUrlBackends |-> <<"backlink", i>>]

UrlBackendSet ==
  {UrlPool[i] : i \in 1..NumUrlBackends}

NoAnswer ==
  <<0>>

\* SELECT DISTINCT url FROM (... UNION ...) ORDER BY url
RECURSIVE OrderedUrls(_)
OrderedUrls(S) ==
  IF S = {} THEN <<>>
  ELSE LET m == CHOOSE x \in S : \A y \in S : x <= y
       IN  <<m>> \o OrderedUrls(S \ {m})

\* LIMIT :limit OFFSET :offset
LimitOffset(q, limit, offset) ==
  SubSeq(q, offset + 1, IF offset + limit < Len(q) THEN offset + limit ELSE Len(q))

\* [url for url in urls if self.is_valid_url(url)]
IsValidUrl(url) ==
  url \notin url_invalid

ValidUrls(q) ==
  SelectSeq(q, IsValidUrl)

\* the query of get_urls_batch on the rows of one backend
UrlsBatchOn(rows, page_no, limit) ==
  ValidUrls(LimitOffset(OrderedUrls(rows), limit, (page_no - 1) * limit))

UrlsIdle ==
  /\ ub_usage = [b \in UrlBackendSet |-> UnderQuota]
  /\ ub_cycle = 1
  /\ url_store = [b \in UrlBackendSet |-> {}]
  /\ url_invalid = {}
  /\ first_answer = [p \in 1..MaxUrlPage |-> NoAnswer]
  /\ last_answer = [page |-> 0, urls |-> NoAnswer]

\* Any content store_backlinks can have left in the backends, chunk by chunk.
UrlsInit ==
  /\ ub_usage \in [UrlBackendSet -> {UnderQuota, OverQuota}]
  /\ ub_cycle = 1
  /\ url_store \in [UrlBackendSet -> SUBSET BatchUrlIds]
  /\ url_invalid \in {I \in SUBSET BatchUrlIds : Cardinality(I) <= MaxInvalid}
  /\ first_answer = [p \in 1..MaxUrlPage |-> NoAnswer]
  /\ last_answer = [page |-> 0, urls |-> NoAnswer]

\* get_urls_batch(page, limit): the query runs on the backend
\* get_session("backlink") returns; any exception gives the empty list.
GetUrlsBatch ==
  /\ \E page_no \in 1..MaxUrlPage :
       LET r    == ChooseLoop(UrlPool, ub_cycle, Len(UrlPool), {}, ub_usage)
           urls == IF r.outcome = "ok"
                   THEN UrlsBatchOn(url_store[r.db], page_no, url_limit)
                   ELSE <<>>
       IN  /\ ub_cycle' = r.pos
           /\ last_answer' = [page |-> page_no, urls |-> urls]
           /\ first_answer' = [first_answer EXCEPT
                                 ![page_no] = IF @ = NoAnswer THEN urls ELSE @]
  /\ UNCHANGED <<ub_usage, url_store, url_invalid>>
  /\ UNCHANGED notUrls

\* The process is started again: a new SQLAlchemyDatabase with new cycles.
UrlsRestart ==
  /\ ub_cycle' = 1
  /\ UNCHANGED <<ub_usage, url_store, url_invalid, first_answer, last_answer>>
  /\ UNCHANGED notUrls

\* The provider's usage of one backlink backend crosses a limit, or resets.
UrlsUsageChange ==
  /\ \E b \in UrlBackendSet :
       ub_usage' = [ub_usage EXCEPT
                      ![b] = IF ub_usage[b] = UnderQuota THEN OverQuota ELSE UnderQuota]
  /\ UNCHANGED <<ub_cycle, url_store, url_invalid, first_answer, last_answer>>
  /\ UNCHANGED notUrls

UrlsNext ==
  \/ GetUrlsBatch
  \/ UrlsRestart
  \/ UrlsUsageChange

(***************************************************************************)
(* PROGRESS FILE: CrawlProgress.save_progress / load_progress              *)
(* (rat/progress.py) at the level of the bytes on disk                     *)
(***************************************************************************)

\* The highest current_page a save is given.
MaxProgressPage ==
  3

\* the progress_data values a caller saves
ProgressData ==
  [current_page : 1..MaxProgressPage, is_running : BOOLEAN]

\* self.default_data
ProgressDefaults ==
  [current_page |-> 1, is_running |-> FALSE]

\* os.path.exists(self.progress_file) is False
NoDisk ==
  <<"absent">>

\* json.dump(progress_data, f, indent=2): the text, token by token
JsonDump(pd) ==
  <<"{", <<"current_page", pd.current_page>>, <<"is_running", pd.is_running>>, "}">>

\* json.load raises on anything but a complete object
JsonComplete(text) ==
  /\ Len(text) = 4
  /\ text[1] = "{"
  /\ text[4] = "}"

\* json.load(f) on a complete text
JsonLoad(text) ==
  [current_page |-> text[2][2], is_running |-> text[3][2]]

\* load_progress: the defaults when the file is absent or json.load raises,
\* else the file's data merged over the defaults, is_running coerced to False
LoadProgressFile(disk) ==
  IF disk = NoDisk THEN [data |-> ProgressDefaults, fallback |-> FALSE]
  ELSE IF ~JsonComplete(disk) THEN [data |-> ProgressDefaults, fallback |-> TRUE]
  ELSE [data |-> [JsonLoad(disk) EXCEPT !.is_running = FALSE], fallback |-> FALSE]

NotLoaded ==
  [data |-> ProgressDefaults, fallback |-> FALSE]

ProgressIdle ==
  /\ pf_disk = NoDisk
  /\ pf_pc = "idle"
  /\ pf_new = ProgressDefaults
  /\ pf_prev = NoDisk
  /\ pf_loaded = NotLoaded

ProgressInit ==
  /\ pf_disk = NoDisk
  /\ pf_pc = "idle"
  /\ pf_new = ProgressDefaults
  /\ pf_prev = NoDisk
  /\ pf_loaded = NotLoaded

\* save_progress: open(self.progress_file, 'w') creates or truncates the file
SaveOpen ==
  /\ pf_pc = "idle"
  /\ \E pd \in ProgressData : pf_new' = pd
  /\ pf_prev' = pf_disk
  /\ pf_disk' = <<>>
  /\ pf_pc' = "writing"
  /\ UNCHANGED pf_loaded
  /\ UNCHANGED notProgress

\* json.dump writes the text through the file object; the next piece of it
\* reaches the disk
SaveWrite ==
  /\ pf_pc = "writing"
  /\ Len(pf_disk) < Len(JsonDump(pf_new))
  /\ pf_disk' = Append(pf_disk, JsonDump(pf_new)[Len(pf_disk) + 1])
  /\ UNCHANGED <<pf_pc, pf_new, pf_prev, pf_loaded>>
  /\ UNCHANGED notProgress

\* the with-block closes the file: save_progress returns
SaveClose ==
  /\ pf_pc = "writing"
  /\ pf_disk = JsonDump(pf_new)
  /\ pf_pc' = "idle"
  /\ UNCHANGED <<pf_disk, pf_new, pf_prev, pf_loaded>>
  /\ UNCHANGED notProgress

\* The process dies inside save_progress: the file stays as it is.
SaveCrash ==
  /\ pf_pc = "writing"
  /\ pf_pc' = "idle"
  /\ UNCHANGED <<pf_disk, pf_new, pf_prev, pf_loaded>>
  /\ UNCHANGED notProgress

\* load_progress in a new process; a file that said is_running is saved
\* again with is_running False
LoadProgressCall ==
  /\ pf_pc = "idle"
  /\ pf_loaded' = LoadProgressFile(pf_disk)
  /\ IF pf_disk # NoDisk /\ JsonComplete(pf_disk) /\ JsonLoad(pf_disk).is_running
     THEN /\ pf_new' = LoadProgressFile(pf_disk).data
          /\ pf_prev' = pf_disk
          /\ pf_disk' = <<>>
          /\ pf_pc' = "writing"
     ELSE UNCHANGED <<pf_disk, pf_pc, pf_new, pf_prev>>
  /\ UNCHANGED notProgress

ProgressNext ==
  \/ SaveOpen
  \/ SaveWrite
  \/ SaveClose
  \/ SaveCrash
  \/ LoadProgressCall

(***************************************************************************)
(* SCHEMA MIGRATION: SQLAlchemyDatabase._migrate_tables                    *)
(* (rat/sqlalchemy_database.py) and                                        *)
(* LiveDatabaseManager.update_schema_safely (rat/database_migration.py)    *)
(***************************************************************************)

\* How many backends are migrated and how often a migration is applied.
NumMigrateDbs ==
  2

MaxApplications ==
  3

MigrateDbSet ==
  1..NumMigrateDbs

\* migration_sql: the columns of the ALTER TABLE crawled_pages ADD COLUMN list
MigrationColumns ==
  <<"content_type", "file_extension">>

\* the columns a crawled_pages table can have here
KnownColumns ==
  {"url", "content_type", "file_extension"}

\* a table that exists has at least its url column
TableStates ==
  { t \in [exists : BOOLEAN, cols : SUBSET KnownColumns] :
      IF t.exists THEN "url" \in t.cols ELSE t.cols = {} }

\* what one ALTER TABLE ... ADD COLUMN col does to a table, and its error
AlterAddColumn(t, col) ==
  IF ~t.exists THEN [table |-> t, error |-> "no such table"]
  ELSE IF col \in t.cols THEN [table |-> t, error |-> "duplicate column name"]
  ELSE [table |-> [t EXCEPT !.cols = @ \cup {col}], error |-> "none"]

\* A variant of MigrateCaught whose handler lets every error but the
\* duplicate-column one go on to the caller.
MigrateCaughtDuplicateOnly(error) ==
  error \in {"none", "duplicate column name"}

\* "except Exception as e" around each statement and around the connection:
\* the error is printed unless it says duplicate column name, and dropped
MigrateCaught(error) ==
  error \in {"none", "duplicate column name", "no such table", "connect"}

\* the statements of migration_sql in order, on one table
RECURSIVE AlterAll(_, _)
AlterAll(t, cols) ==
  IF cols = <<>> THEN t
  ELSE AlterAll(AlterAddColumn(t, Head(cols)).table, Tail(cols))

\* the errors those statements raise
RECURSIVE AlterErrors(_, _)
AlterErrors(t, cols) ==
  IF cols = <<>> THEN {}
  ELSE {AlterAddColumn(t, Head(cols)).error}
         \cup AlterErrors(AlterAddColumn(t, Head(cols)).table, Tail(cols))

\* the body of the loop of _migrate_tables for one backend: engine.connect()
\* fails for an unreachable backend, else every statement is executed
MigrateOne(d) ==
  IF ~d.reachable THEN d
  ELSE [d EXCEPT !.table = AlterAll(d.table, MigrationColumns)]

MigrateOneErrors(d) ==
  IF ~d.reachable THEN {"connect"}
  ELSE AlterErrors(d.table, MigrationColumns)

\* update_schema_safely for the crawled_pages entry of new_columns: nothing
\* when the table does not exist, else one ALTER per column
UpdateSchema(t, cols) ==
  IF ~t.exists THEN t ELSE AlterAll(t, cols)

UpdateSchemaErrors(t, cols) ==
  IF ~t.exists THEN {} ELSE AlterErrors(t, cols)

\* "except sqlite3.OperationalError": both errors an ALTER raises are of it
UpdateCaught(error) ==
  error \in {"none", "duplicate column name", "no such table"}

NewColumnsInputs ==
  {<<>>, <<"content_type">>, <<"file_extension">>, <<"content_type", "file_extension">>,
   <<"file_extension", "content_type">>}

MigrateIdle ==
  /\ mg_schema = [b \in MigrateDbSet |->
                    [reachable |-> TRUE, table |-> [exists |-> FALSE, cols |-> {}]]]
  /\ mg_before = mg_schema
  /\ mg_first = mg_schema
  /\ mg_applied = 0
  /\ mg_raised = FALSE
  /\ sq_schema = [exists |-> FALSE, cols |-> {}]
  /\ sq_new_columns = <<>>
  /\ sq_before = sq_schema
  /\ sq_first = sq_schema
  /\ sq_applied = 0
  /\ sq_raised = FALSE

MigrateInit ==
  /\ mg_schema \in [MigrateDbSet -> [reachable : BOOLEAN, table : TableStates]]
  /\ mg_before = mg_schema
  /\ mg_first = mg_schema
  /\ mg_applied = 0
  /\ mg_raised = FALSE
  /\ sq_schema \in TableStates
  /\ sq_new_columns \in NewColumnsInputs
  /\ sq_before = sq_schema
  /\ sq_first = sq_schema
  /\ sq_applied = 0
  /\ sq_raised = FALSE

\* _migrate_tables: every backend of databaselist1 + databaselist2 in turn
MigrateTables ==
  /\ mg_applied < MaxApplications
  /\ mg_schema' = [b \in MigrateDbSet |-> MigrateOne(mg_schema[b])]
  /\ mg_first' = IF mg_applied = 0 THEN mg_schema' ELSE mg_first
  /\ mg_applied' = mg_applied + 1
  /\ mg_raised' = (mg_raised \/ \E b \in MigrateDbSet :
                                  \E e \in MigrateOneErrors(mg_schema[b]) : ~MigrateCaught(e))
  /\ UNCHANGED <<mg_before, sq_schema, sq_new_columns, sq_before, sq_first, sq_applied,
                 sq_raised>>
  /\ UNCHANGED notMigrate

\* update_schema_safely({"crawled_pages": ...})
UpdateSchemaSafely ==
  /\ sq_applied < MaxApplications
  /\ sq_schema' = UpdateSchema(sq_schema, sq_new_columns)
  /\ sq_first' = IF sq_applied = 0 THEN sq_schema' ELSE sq_first
  /\ sq_applied' = sq_applied + 1
  /\ sq_raised' = (sq_raised \/ \E e \in UpdateSchemaErrors(sq_schema, sq_new_columns) :
                                  ~UpdateCaught(e))
  /\ UNCHANGED <<mg_schema, mg_before, mg_first, mg_applied, mg_raised, sq_new_columns,
                 sq_before>>
  /\ UNCHANGED notMigrate

MigrateNext ==
  \/ MigrateTables
  \/ UpdateSchemaSafely

(***************************************************************************)
(* POOL: the crawl pool of SQLAlchemyDatabase from Health.useabledbdata    *)
(* (rat/healthcheck.py), _choose_db on it and refresh_database_cycles      *)
(* (rat/sqlalchemy_database.py)                                            *)
(***************************************************************************)

\* How many crawl backends are configured and how often the pool is refreshed.
NumPoolDbs ==
  2

MaxRefresh ==
  2

\* "rows_read<9000000 and storage_bytes<4000000000", the storage in KiB
HEALTH_READ_LIMIT ==
  9000000

HEALTH_STORAGE_KIB ==
  3906250

PoolDbs ==
  1..NumPoolDbs

\* What the usage API can answer for a backend: under every limit, at the
\* router's write limit, at the health check's read limit, an empty "total",
\* or a failing request.
PoolUsageCases ==
  { [kind |-> "dict",  storage |-> 0, writes |-> 9500000, reads |-> 0],
    [kind |-> "dict",  storage |-> 0, writes |-> DAILY_WRITE_LIMIT, reads |-> NullVal],
    [kind |-> "dict",  storage |-> NullVal, writes |-> 1000000, reads |-> HEALTH_READ_LIMIT],
    [kind |-> "empty", storage |-> NullVal, writes |-> NullVal, reads |-> NullVal],
    [kind |-> "raise", storage |-> NullVal, writes |-> NullVal, reads |-> NullVal] }

\* useabledbdata's test of one backend whose request did not raise
HealthUseable(u) ==
  /\ FieldOrZero(u.reads) < HEALTH_READ_LIMIT
  /\ FieldOrZero(u.storage) < HEALTH_STORAGE_KIB

\* useabledbdata's loop over crawler_databases from backend i on: the entries
\* it appends, up to a request that raises
RECURSIVE HealthEntries(_, _)
HealthEntries(i, usg) ==
  IF i > NumPoolDbs \/ usg[i].kind = "raise" THEN <<>>
  ELSE <<IF HealthUseable(usg[i]) THEN i ELSE 0>> \o HealthEntries(i + 1, usg)

\* __enginelist: "for db in self.crwlDB: if db: ... self.databaselist1.append(db)"
EngineList(useable) ==
  SelectSeq(useable, LAMBDA e : e # 0)

\* _check_quota returns True for the backend
Passes(b, usg) ==
  usg[b].kind # "raise" /\ CheckQuota(usg[b])

NoLast ==
  [outcome |-> "idle", db |-> NoDB, steps |-> 0, evals |-> <<>>, start |-> 1, list |-> <<>>]

\* the last n elements of a sequence
LastOf(q, n) ==
  IF Len(q) <= n THEN q ELSE SubSeq(q, Len(q) - n + 1, Len(q))

\* the backends of a list
Members(list) ==
  {list[k] : k \in 1..Len(list)}

PoolIdle ==
  /\ pl_usage = [b \in PoolDbs |-> [kind |-> "empty", storage |-> NullVal,
                                    writes |-> NullVal, reads |-> NullVal]]
  /\ pl_useable = <<>>
  /\ pl_list = <<>>
  /\ pl_cycle = 1
  /\ pl_refreshes = 0
  /\ pl_last = NoLast
  /\ pl_window = <<>>

\* SQLAlchemyDatabase.__init__: useabledbdata, __enginelist, itertools.cycle;
\* a request that raises there leaves no object
PoolInit ==
  /\ pl_usage \in [PoolDbs -> {u \in PoolUsageCases : u.kind # "raise"}]
  /\ pl_useable = HealthEntries(1, pl_usage)
  /\ pl_list = EngineList(pl_useable)
  /\ pl_cycle = 1
  /\ pl_refreshes = 0
  /\ pl_last = NoLast
  /\ pl_window = <<>>

\* The provider's usage of one backend changes.
PoolUsageChange ==
  /\ \E b \in PoolDbs, u \in PoolUsageCases :
       /\ u # pl_usage[b]
       /\ pl_usage' = [pl_usage EXCEPT ![b] = u]
  /\ pl_last' = NoLast
  /\ pl_window' = <<>>
  /\ UNCHANGED <<pl_useable, pl_list, pl_cycle, pl_refreshes>>
  /\ UNCHANGED notPool

\* _choose_db("crawl"): RuntimeError when databaselist1 is empty
PoolChoose ==
  /\ IF pl_list = <<>>
     THEN /\ pl_last' = [NoLast EXCEPT !.outcome = "error"]
          /\ pl_window' = <<>>
          /\ UNCHANGED pl_cycle
     ELSE LET r == ChooseLoop(pl_list, pl_cycle, Len(pl_list), {}, pl_usage)
          IN  /\ pl_cycle' = r.pos
              /\ pl_last' = [outcome |-> r.outcome, db |-> r.db, steps |-> r.steps,
                             evals |-> r.evals, start |-> pl_cycle, list |-> pl_list]
              /\ pl_window' = IF r.outcome = "ok"
                              THEN LastOf(Append(pl_window, r.db),
                                          Cardinality(Members(pl_list)))
                              ELSE <<>>
  /\ UNCHANGED <<pl_usage, pl_useable, pl_list, pl_refreshes>>
  /\ UNCHANGED notPool

\* refresh_database_cycles: useabledbdata appends to the lists of Health, then
\* the engine lists and the cycles are rebuilt; a request that raises ends the
\* call before the rebuild
RefreshDatabaseCycles ==
  /\ pl_refreshes < MaxRefresh
  /\ pl_refreshes' = pl_refreshes + 1
  /\ pl_useable' = pl_useable \o HealthEntries(1, pl_usage)
  /\ IF \E b \in PoolDbs : pl_usage[b].kind = "raise"
     THEN UNCHANGED <<pl_list, pl_cycle, pl_last, pl_window>>
     ELSE /\ pl_list' = EngineList(pl_useable')
          /\ pl_cycle' = 1
          /\ pl_last' = NoLast
          /\ pl_window' = <<>>
  /\ UNCHANGED pl_usage
  /\ UNCHANGED notPool

PoolNext ==
  \/ PoolUsageChange
  \/ PoolChoose
  \/ RefreshDatabaseCycles

(***************************************************************************)
(* THREADS: SQLAlchemyDatabase._choose_db (rat/sqlalchemy_database.py)     *)
(* called by several threads on the one shared cycle, statement by         *)
(* statement                                                              *)
(***************************************************************************)

\* How many threads call _choose_db and how many backends the pool has.
NumThreads ==
  2

NumThreadDbs ==
  2

Threads ==
  1..NumThreads

\* db_list
ThreadPool ==
  [i \in 1..NumThreadDbs |-> i]

NoReturn ==
  [outcome |-> "pending", db |-> 0]

ThreadsIdle ==
  /\ th_usage = [b \in 1..NumThreadDbs |-> UnderQuota]
  /\ th_cycle = 1
  /\ th_start = 1
  /\ th_pc = [t \in Threads |-> "idle"]
  /\ th_left = [t \in Threads |-> 0]
  /\ th_checked = [t \in Threads |-> {}]
  /\ th_db = [t \in Threads |-> 0]
  /\ th_result = [t \in Threads |-> NoReturn]

\* The cycle is at any position; no call has begun.
ThreadsInit ==
  /\ th_usage \in [1..NumThreadDbs -> {UnderQuota, OverQuota}]
  /\ th_cycle \in 1..NumThreadDbs
  /\ th_start = th_cycle
  /\ th_pc = [t \in Threads |-> "idle"]
  /\ th_left = [t \in Threads |-> 0]
  /\ th_checked = [t \in Threads |-> {}]
  /\ th_db = [t \in Threads |-> 0]
  /\ th_result = [t \in Threads |-> NoReturn]

\* "checked = set(); max_attempts = len(db_list)"
ThreadCall(t) ==
  /\ th_pc[t] = "idle"
  /\ th_pc' = [th_pc EXCEPT ![t] = "loop"]
  /\ th_left' = [th_left EXCEPT ![t] = Len(ThreadPool)]
  /\ th_checked' = [th_checked EXCEPT ![t] = {}]
  /\ UNCHANGED <<th_usage, th_cycle, th_start, th_db, th_result>>
  /\ UNCHANGED notThreads

\* "db = next(cycle)", then "continue" for a name in checked, else
\* "checked.add(db['name'])"
ThreadNext(t) ==
  /\ th_pc[t] = "loop"
  /\ th_left[t] > 0
  /\ th_left' = [th_left EXCEPT ![t] = @ - 1]
  /\ th_cycle' = CycleNext(th_cycle, Len(ThreadPool))
  /\ IF ThreadPool[th_cycle] \in th_checked[t]
     THEN UNCHANGED <<th_pc, th_checked, th_db>>
     ELSE /\ th_db' = [th_db EXCEPT ![t] = ThreadPool[th_cycle]]
          /\ th_checked' = [th_checked EXCEPT ![t] = @ \cup {ThreadPool[th_cycle]}]
          /\ th_pc' = [th_pc EXCEPT ![t] = "check"]
  /\ UNCHANGED <<th_usage, th_start, th_result>>
  /\ UNCHANGED notThreads

\* "if self._check_quota(db): return db"
ThreadCheck(t) ==
  /\ th_pc[t] = "check"
  /\ IF CheckQuota(th_usage[th_db[t]])
     THEN /\ th_pc' = [th_pc EXCEPT ![t] = "done"]
          /\ th_result' = [th_result EXCEPT ![t] = [outcome |-> "ok", db |-> th_db[t]]]
     ELSE /\ th_pc' = [th_pc EXCEPT ![t] = "loop"]
          /\ UNCHANGED th_result
  /\ UNCHANGED <<th_usage, th_cycle, th_start, th_left, th_checked, th_db>>
  /\ UNCHANGED notThreads

\* the for-loop is exhausted: "return None"
ThreadReturnNone(t) ==
  /\ th_pc[t] = "loop"
  /\ th_left[t] = 0
  /\ th_pc' = [th_pc EXCEPT ![t] = "done"]
  /\ th_result' = [th_result EXCEPT ![t] = [outcome |-> "none", db |-> 0]]
  /\ UNCHANGED <<th_usage, th_cycle, th_start, th_left, th_checked, th_db>>
  /\ UNCHANGED notThreads

ThreadsNext ==
  \/ \E t \in Threads : ThreadCall(t)
  \/ \E t \in Threads : ThreadNext(t)
  \/ \E t \in Threads : ThreadCheck(t)
  \/ \E t \in Threads : ThreadReturnNone(t)

(***************************************************************************)
(* DISCOVER: BacklinkDiscoverer.crawl_depth with create_robots_txt_checker *)
(* (rat/backlink.py): the tasks of one depth, their requests and sleeps    *)
(***************************************************************************)

\* How many URLs the depth has, on how many hosts, and how long the run is
\* followed.
NumTasks ==
  3

NumHosts ==
  2

MaxClock ==
  3

\* asyncio.Semaphore(5), scaled down.
depth_semaphore ==
  2

\* TCPConnector(limit=10), scaled down to stay above the semaphore.
connector_limit ==
  3

\* TCPConnector(limit_per_host=2)
limit_per_host ==
  2

\* self.delay, in ticks; the sleep before a fetch lasts between half of it
\* and one and a half times it.
discover_delay ==
  2

Tasks ==
  1..NumTasks

Hosts ==
  1..NumHosts

\* random.uniform(self.delay * 0.5, self.delay * 1.5), in whole ticks
SleepTimes ==
  { s \in 0..(2 * discover_delay) : 2 * s >= discover_delay /\ 2 * s <= 3 * discover_delay }

\* the tasks whose session.get holds a connection of the connector
DiscoverInFlight ==
  { t \in Tasks : d_pc[t] \in {"robots", "fetch"} }

\* the connector hands out a connection: below its limit and the host's
ConnectionFree(u) ==
  /\ Cardinality(DiscoverInFlight) < connector_limit
  /\ Cardinality({ t \in DiscoverInFlight : d_host[t] = d_host[u] }) < limit_per_host

DiscoverIdle ==
  /\ d_respect = FALSE
  /\ d_host = [t \in Tasks |-> 1]
  /\ d_pc = [t \in Tasks |-> "done"]
  /\ d_sem = depth_semaphore
  /\ d_clock = 0
  /\ d_wake = [t \in Tasks |-> 0]
  /\ d_last_fetch = [h \in Hosts |-> -1]
  /\ d_close = FALSE

\* crawl_depth has created its semaphore and one task per URL; gather starts
\* them.
DiscoverInit ==
  /\ d_respect \in BOOLEAN
  /\ d_host \in [Tasks -> Hosts]
  /\ d_pc = [t \in Tasks |-> "start"]
  /\ d_sem = depth_semaphore
  /\ d_clock = 0
  /\ d_wake = [t \in Tasks |-> 0]
  /\ d_last_fetch = [h \in Hosts |-> -1]
  /\ d_close = FALSE

\* crawl_single_url begins: with robots checking on, check_robots_txt calls
\* session.get(robots_url); otherwise the task goes to the semaphore.
TaskStart(t) ==
  /\ d_pc[t] = "start"
  /\ d_pc' = [d_pc EXCEPT ![t] = IF d_respect THEN "robots_wait" ELSE "sem_wait"]
  /\ UNCHANGED <<d_respect, d_host, d_sem, d_clock, d_wake, d_last_fetch, d_close>>
  /\ UNCHANGED notDiscover

\* the robots.txt request gets its connection
RobotsRequest(t) ==
  /\ d_pc[t] = "robots_wait"
  /\ ConnectionFree(t)
  /\ d_pc' = [d_pc EXCEPT ![t] = "robots"]
  /\ UNCHANGED <<d_respect, d_host, d_sem, d_clock, d_wake, d_last_fetch, d_close>>
  /\ UNCHANGED notDiscover

\* check_robots_txt returns: False ends the task, True (also on any
\* exception) sends it to the semaphore
RobotsAnswer(t) ==
  /\ d_pc[t] = "robots"
  /\ \E allowed \in BOOLEAN :
       d_pc' = [d_pc EXCEPT ![t] = IF allowed THEN "sem_wait" ELSE "done"]
  /\ UNCHANGED <<d_respect, d_host, d_sem, d_clock, d_wake, d_last_fetch, d_close>>
  /\ UNCHANGED notDiscover

\* "async with semaphore:" and the start of the random sleep
DiscoverAcquire(t) ==
  /\ d_pc[t] = "sem_wait"
  /\ d_sem > 0
  /\ d_sem' = d_sem - 1
  /\ \E s \in SleepTimes : d_wake' = [d_wake EXCEPT ![t] = d_clock + s]
  /\ d_pc' = [d_pc EXCEPT ![t] = "sleep"]
  /\ UNCHANGED <<d_respect, d_host, d_clock, d_last_fetch, d_close>>
  /\ UNCHANGED notDiscover

\* the sleep is over: fetch_page calls session.get(url)
DiscoverSleepEnd(t) ==
  /\ d_pc[t] = "sleep"
  /\ d_clock >= d_wake[t]
  /\ d_pc' = [d_pc EXCEPT ![t] = "fetch_wait"]
  /\ UNCHANGED <<d_respect, d_host, d_sem, d_clock, d_wake, d_last_fetch, d_close>>
  /\ UNCHANGED notDiscover

\* the page request gets its connection and is issued to the host
FetchRequest(t) ==
  /\ d_pc[t] = "fetch_wait"
  /\ ConnectionFree(t)
  /\ d_pc' = [d_pc EXCEPT ![t] = "fetch"]
  /\ d_close' = (d_close \/ (/\ d_last_fetch[d_host[t]] >= 0
                             /\ d_clock - d_last_fetch[d_host[t]] < discover_delay))
  /\ d_last_fetch' = [d_last_fetch EXCEPT ![d_host[t]] = d_clock]
  /\ UNCHANGED <<d_respect, d_host, d_sem, d_clock, d_wake>>
  /\ UNCHANGED notDiscover

\* fetch_page returns, the page is parsed, the semaphore is released
FetchAnswer(t) ==
  /\ d_pc[t] = "fetch"
  /\ d_pc' = [d_pc EXCEPT ![t] = "done"]
  /\ d_sem' = d_sem + 1
  /\ UNCHANGED <<d_respect, d_host, d_clock, d_wake, d_last_fetch, d_close>>
  /\ UNCHANGED notDiscover

\* Time passes.
DiscoverTick ==
  /\ d_clock < MaxClock
  /\ d_clock' = d_clock + 1
  /\ UNCHANGED <<d_respect, d_host, d_pc, d_sem, d_wake, d_last_fetch, d_close>>
  /\ UNCHANGED notDiscover

DiscoverNext ==
  \/ \E t \in Tasks : TaskStart(t)
  \/ \E t \in Tasks : RobotsRequest(t)
  \/ \E t \in Tasks : RobotsAnswer(t)
  \/ \E t \in Tasks : DiscoverAcquire(t)
  \/ \E t \in Tasks : DiscoverSleepEnd(t)
  \/ \E t \in Tasks : FetchRequest(t)
  \/ \E t \in Tasks : FetchAnswer(t)
  \/ DiscoverTick

(***************************************************************************)
(* FRONTIER: the heapq of (priority, url) tuples in start_crawl_session    *)
(* and comprehensive_crawl (crawler.py)                                    *)
(***************************************************************************)

\* How many URLs and priorities there are and how many pushes are followed.
NumFrontierUrls ==
  2

MaxPriority ==
  1

MaxPushes ==
  3

\* a URL stands for its place in the order of str comparison
FrontierUrls ==
  1..NumFrontierUrls

NotServed ==
  [priority |-> 0, url |-> 0, seq |-> 0]

\* "<" of the tuples (priority, url) that heapq compares
TupleLess(e1, e2) ==
  \/ e1.priority < e2.priority
  \/ e1.priority = e2.priority /\ e1.url < e2.url

\* heapq.heappop returns a smallest tuple of the heap
HeapSmallest(heap) ==
  { e \in heap : \A e2 \in heap : ~TupleLess(e2, e) }

FrontierIdle ==
  /\ fr_heap = {}
  /\ fr_pushes = 0
  /\ fr_served = NotServed
  /\ fr_before = {}

FrontierInit ==
  /\ fr_heap = {}
  /\ fr_pushes = 0
  /\ fr_served = NotServed
  /\ fr_before = {}

\* heapq.heappush(self.url_frontier, (priority, url))
HeapPush ==
  /\ fr_pushes < MaxPushes
  /\ \E p \in 0..MaxPriority, u \in FrontierUrls :
       fr_heap' = fr_heap \cup {[priority |-> p, url |-> u, seq |-> fr_pushes + 1]}
  /\ fr_pushes' = fr_pushes + 1
  /\ UNCHANGED <<fr_served, fr_before>>
  /\ UNCHANGED notFrontier

\* priority, url = heapq.heappop(self.url_frontier); which of two equal
\* tuples comes out is up to the heap
HeapPopServe ==
  /\ fr_heap # {}
  /\ \E e \in HeapSmallest(fr_heap) :
       /\ fr_served' = e
       /\ fr_heap' = fr_heap \ {e}
  /\ fr_before' = fr_heap
  /\ UNCHANGED fr_pushes
  /\ UNCHANGED notFrontier

FrontierNext ==
  \/ HeapPush
  \/ HeapPopServe

(***************************************************************************)
(* LINK GRAPH: BacklinkProcessor.build_link_graph (backlinkprocessor.py)   *)
(***************************************************************************)

\* How many pages there are and how many backlinks the list holds.
NumGraphNodes ==
  2

MaxGraphBacklinks ==
  3

\* the weights 1.0 and 0.1, in tenths
WeightFollow ==
  10

WeightNofollow ==
  1

NoEdge ==
  0

GraphNodes ==
  1..NumGraphNodes

GraphEdges ==
  GraphNodes \X GraphNodes

BacklinkValues ==
  [source_url : GraphNodes, target_url : GraphNodes, is_nofollow : BOOLEAN]

\* weight=1.0 if not backlink.is_nofollow else 0.1
BacklinkWeight(b) ==
  IF ~b.is_nofollow THEN WeightFollow ELSE WeightNofollow

\* DiGraph.add_edge(u, v, weight=w): an edge that exists gets the new weight
AddEdge(g, b) ==
  [g EXCEPT ![<<b.source_url, b.target_url>>] = BacklinkWeight(b)]

RECURSIVE AddEdges(_, _, _)
AddEdges(g, list, i) ==
  IF i > Len(list) THEN g
  ELSE AddEdges(AddEdge(g, list[i]), list, i + 1)

GraphIdle ==
  /\ gr_backlinks = <<>>
  /\ gr_graph = [e \in GraphEdges |-> NoEdge]
  /\ gr_pc = "collect"

GraphInit ==
  /\ gr_backlinks = <<>>
  /\ gr_graph = [e \in GraphEdges |-> NoEdge]
  /\ gr_pc = "collect"

\* self.backlinks.extend(links) in crawl_backlinks, one backlink at a time
AppendBacklink ==
  /\ gr_pc = "collect"
  /\ Len(gr_backlinks) < MaxGraphBacklinks
  /\ \E b \in BacklinkValues : gr_backlinks' = Append(gr_backlinks, b)
  /\ UNCHANGED <<gr_graph, gr_pc>>
  /\ UNCHANGED notGraph

\* build_link_graph(): one add_edge per backlink, in list order
BuildLinkGraph ==
  /\ gr_pc = "collect"
  /\ gr_graph' = AddEdges(gr_graph, gr_backlinks, 1)
  /\ gr_pc' = "built"
  /\ UNCHANGED gr_backlinks
  /\ UNCHANGED notGraph

GraphNext ==
  \/ AppendBacklink
  \/ BuildLinkGraph

(***************************************************************************)
(* STATUS: show_status (main_auto_batch.py) in a process of its own, next   *)
(* to the auto-batch run, on the one progress file                         *)
(***************************************************************************)

\* How many times --status is run.
MaxStatusCalls ==
  1

StatusIdle ==
  /\ status_read = NoFile
  /\ status_calls = 0

StatusInit ==
  /\ status_read = NoFile
  /\ status_calls = 0

\* show_status calls load_progress: it reads the file, and when the file
\* says is_running it sets that to False in what it read and goes on to save
StatusLoad ==
  /\ status_calls < MaxStatusCalls
  /\ ~status_read.exists
  /\ file.exists
  /\ file.is_running
  /\ status_read' = [file EXCEPT !.is_running = FALSE]
  /\ status_calls' = status_calls + 1
  /\ UNCHANGED autoVars
  /\ UNCHANGED notAutoStatus

\* the save_progress of that load_progress: the file is overwritten with
\* what was read
StatusSave ==
  /\ status_read.exists
  /\ file' = SaveProgress(status_read)
  /\ status_read' = NoFile
  /\ UNCHANGED status_calls
  /\ UNCHANGED <<mem, apc, page, batchLen, runStart, urlValid, done, sumBatch,
                 lastCompleted, interrupted, cut_batch, finished_at, seen_kinds>>
  /\ UNCHANGED notAutoStatus

StatusNext ==
  \/ AutoNext
  \/ StatusLoad
  \/ StatusSave

(***************************************************************************)
(* CONNECTION POOL: ProductionDatabaseManager (production_db_manager.py);  *)
(* every block under connection_lock is one step                           *)
(***************************************************************************)

\* max_connections (5 by default) and the number of threads using the pool.
max_connections ==
  2

NumPoolUsers ==
  3

PoolUsers ==
  1..NumPoolUsers

NoConn ==
  0 - 1

\* _init_connection_pool: connections 0..max_connections-1, none in use
NewPool ==
  [c \in 0..(max_connections - 1) |-> FALSE]

\* the scan of get_connection: the first entry of the dict that is not in use
FirstFree(conns) ==
  LET free == { c \in DOMAIN conns : ~conns[c] }
  IN  IF free = {} THEN NoConn
      ELSE CHOOSE c \in free : \A c2 \in free : c <= c2

\* A variant of ReleaseConnection with no 'finally': an exception skips it.
ReleaseConnectionNoFinally(conns, c, how) ==
  IF c \in DOMAIN conns /\ how = "normal" THEN [conns EXCEPT ![c] = FALSE] ELSE conns

\* the finally clause of get_connection, run however the user leaves
ReleaseConnection(conns, c, how) ==
  IF c \in DOMAIN conns THEN [conns EXCEPT ![c] = FALSE] ELSE conns

ManagerIdle ==
  /\ connections = NewPool
  /\ user_pc = [u \in PoolUsers |-> "idle"]
  /\ conn_id = [u \in PoolUsers |-> NoConn]
  /\ freed_on_error = {}
  /\ was_refused = {}

ManagerInit ==
  /\ connections = NewPool
  /\ user_pc = [u \in PoolUsers |-> "idle"]
  /\ conn_id = [u \in PoolUsers |-> NoConn]
  /\ freed_on_error = {}
  /\ was_refused = {}

\* "with self.get_connection() as conn": the locked scan, then the yield or
\* RuntimeError("No available database connections")
GetConnection(u) ==
  /\ user_pc[u] = "idle"
  /\ LET c == FirstFree(connections)
     IN  IF c = NoConn
         THEN /\ was_refused' = was_refused \cup {u}
              /\ UNCHANGED <<connections, conn_id, user_pc>>
         ELSE /\ connections' = [connections EXCEPT ![c] = TRUE]
              /\ conn_id' = [conn_id EXCEPT ![u] = c]
              /\ user_pc' = [user_pc EXCEPT ![u] = "using"]
              /\ UNCHANGED was_refused
  /\ UNCHANGED freed_on_error
  /\ UNCHANGED notManager

\* the user leaves the with block, normally or by an exception
LeaveContext(u) ==
  /\ user_pc[u] = "using"
  /\ \E how \in {"normal", "exception"} :
       /\ connections' = ReleaseConnection(connections, conn_id[u], how)
       /\ freed_on_error' = IF how = "exception" /\ conn_id[u] \in DOMAIN connections
                            THEN freed_on_error \cup {conn_id[u]}
                            ELSE freed_on_error
  /\ conn_id' = [conn_id EXCEPT ![u] = NoConn]
  /\ user_pc' = [user_pc EXCEPT ![u] = "idle"]
  /\ UNCHANGED was_refused
  /\ UNCHANGED notManager

\* close_all_connections: every connection is closed and the dict cleared
CloseAllConnections ==
  /\ DOMAIN connections # {}
  /\ connections' = [c \in {} |-> FALSE]
  /\ UNCHANGED <<user_pc, conn_id, freed_on_error, was_refused>>
  /\ UNCHANGED notManager

ManagerNext ==
  \/ \E u \in PoolUsers : GetConnection(u)
  \/ \E u \in PoolUsers : LeaveContext(u)
  \/ CloseAllConnections

(***************************************************************************)
(* Specifications                                                          *)
(***************************************************************************)

InitRouter ==
  RouterInit /\ AutoIdle /\ FetchIdle /\ BatchIdle /\ CrawlIdle /\ StoreIdle /\ SqliteIdle /\ BacklinkIdle /\ PagerankIdle /\ UrlsIdle /\ ProgressIdle /\ MigrateIdle /\ PoolIdle /\ ThreadsIdle /\ DiscoverIdle /\ FrontierIdle /\ GraphIdle /\ StatusIdle /\ ManagerIdle

SpecRouter ==
  InitRouter /\ [][RouterNext]_vars

InitAuto ==
  AutoInit /\ RouterIdle /\ FetchIdle /\ BatchIdle /\ CrawlIdle /\ StoreIdle /\ SqliteIdle /\ BacklinkIdle /\ PagerankIdle /\ UrlsIdle /\ ProgressIdle /\ MigrateIdle /\ PoolIdle /\ ThreadsIdle /\ DiscoverIdle /\ FrontierIdle /\ GraphIdle /\ StatusIdle /\ ManagerIdle

SpecAuto ==
  InitAuto /\ [][AutoNext]_vars

InitFetch ==
  FetchInit /\ RouterIdle /\ AutoIdle /\ BatchIdle /\ CrawlIdle /\ StoreIdle /\ SqliteIdle /\ BacklinkIdle /\ PagerankIdle /\ UrlsIdle /\ ProgressIdle /\ MigrateIdle /\ PoolIdle /\ ThreadsIdle /\ DiscoverIdle /\ FrontierIdle /\ GraphIdle /\ StatusIdle /\ ManagerIdle

SpecFetch ==
  InitFetch /\ [][FetchNext]_vars

InitBatch ==
  BatchInit /\ RouterIdle /\ AutoIdle /\ FetchIdle /\ CrawlIdle /\ StoreIdle /\ SqliteIdle /\ BacklinkIdle /\ PagerankIdle /\ UrlsIdle /\ ProgressIdle /\ MigrateIdle /\ PoolIdle /\ ThreadsIdle /\ DiscoverIdle /\ FrontierIdle /\ GraphIdle /\ StatusIdle /\ ManagerIdle

SpecBatch ==
  InitBatch /\ [][NextBatch]_vars

InitCrawl ==
  CrawlInit /\ RouterIdle /\ AutoIdle /\ FetchIdle /\ BatchIdle /\ StoreIdle /\ SqliteIdle /\ BacklinkIdle /\ PagerankIdle /\ UrlsIdle /\ ProgressIdle /\ MigrateIdle /\ PoolIdle /\ ThreadsIdle /\ DiscoverIdle /\ FrontierIdle /\ GraphIdle /\ StatusIdle /\ ManagerIdle

SpecCrawl ==
  InitCrawl /\ [][CrawlNext]_vars

InitStore ==
  StoreInit /\ RouterIdle /\ AutoIdle /\ FetchIdle /\ BatchIdle /\ CrawlIdle /\ SqliteIdle /\ BacklinkIdle /\ PagerankIdle /\ UrlsIdle /\ ProgressIdle /\ MigrateIdle /\ PoolIdle /\ ThreadsIdle /\ DiscoverIdle /\ FrontierIdle /\ GraphIdle /\ StatusIdle /\ ManagerIdle

SpecStore ==
  InitStore /\ [][StoreNext]_vars

InitSqlite ==
  SqliteInit /\ RouterIdle /\ AutoIdle /\ FetchIdle /\ BatchIdle /\ CrawlIdle /\ StoreIdle /\ BacklinkIdle /\ PagerankIdle /\ UrlsIdle /\ ProgressIdle /\ MigrateIdle /\ PoolIdle /\ ThreadsIdle /\ DiscoverIdle /\ FrontierIdle /\ GraphIdle /\ StatusIdle /\ ManagerIdle

SpecSqlite ==
  InitSqlite /\ [][SqliteNext]_vars

InitBacklink ==
  BacklinkInit /\ RouterIdle /\ AutoIdle /\ FetchIdle /\ BatchIdle /\ CrawlIdle /\ StoreIdle /\ SqliteIdle /\ PagerankIdle /\ UrlsIdle /\ ProgressIdle /\ MigrateIdle /\ PoolIdle /\ ThreadsIdle /\ DiscoverIdle /\ FrontierIdle /\ GraphIdle /\ StatusIdle /\ ManagerIdle

SpecBacklink ==
  InitBacklink /\ [][BacklinkNext]_vars

InitPagerank ==
  PagerankInit /\ RouterIdle /\ AutoIdle /\ FetchIdle /\ BatchIdle /\ CrawlIdle /\ StoreIdle /\ SqliteIdle /\ BacklinkIdle /\ UrlsIdle /\ ProgressIdle /\ MigrateIdle /\ PoolIdle /\ ThreadsIdle /\ DiscoverIdle /\ FrontierIdle /\ GraphIdle /\ StatusIdle /\ ManagerIdle

SpecPagerank ==
  InitPagerank /\ [][PagerankNext]_vars

InitUrls ==
  UrlsInit /\ RouterIdle /\ AutoIdle /\ FetchIdle /\ BatchIdle /\ CrawlIdle /\ StoreIdle /\ SqliteIdle /\ BacklinkIdle /\ PagerankIdle /\ ProgressIdle /\ MigrateIdle /\ PoolIdle /\ ThreadsIdle /\ DiscoverIdle /\ FrontierIdle /\ GraphIdle /\ StatusIdle /\ ManagerIdle

SpecUrls ==
  InitUrls /\ [][UrlsNext]_vars

InitProgress ==
  ProgressInit /\ RouterIdle /\ AutoIdle /\ FetchIdle /\ BatchIdle /\ CrawlIdle /\ StoreIdle /\ SqliteIdle /\ BacklinkIdle /\ PagerankIdle /\ UrlsIdle /\ MigrateIdle /\ PoolIdle /\ ThreadsIdle /\ DiscoverIdle /\ FrontierIdle /\ GraphIdle /\ StatusIdle /\ ManagerIdle

SpecProgress ==
  InitProgress /\ [][ProgressNext]_vars

InitMigrate ==
  MigrateInit /\ RouterIdle /\ AutoIdle /\ FetchIdle /\ BatchIdle /\ CrawlIdle /\ StoreIdle /\ SqliteIdle /\ BacklinkIdle /\ PagerankIdle /\ UrlsIdle /\ ProgressIdle /\ PoolIdle /\ ThreadsIdle /\ DiscoverIdle /\ FrontierIdle /\ GraphIdle /\ StatusIdle /\ ManagerIdle

SpecMigrate ==
  InitMigrate /\ [][MigrateNext]_vars

InitPool ==
  PoolInit /\ RouterIdle /\ AutoIdle /\ FetchIdle /\ BatchIdle /\ CrawlIdle /\ StoreIdle /\ SqliteIdle /\ BacklinkIdle /\ PagerankIdle /\ UrlsIdle /\ ProgressIdle /\ MigrateIdle /\ ThreadsIdle /\ DiscoverIdle /\ FrontierIdle /\ GraphIdle /\ StatusIdle /\ ManagerIdle

SpecPool ==
  InitPool /\ [][PoolNext]_vars

InitThreads ==
  ThreadsInit /\ RouterIdle /\ AutoIdle /\ FetchIdle /\ BatchIdle /\ CrawlIdle /\ StoreIdle /\ SqliteIdle /\ BacklinkIdle /\ PagerankIdle /\ UrlsIdle /\ ProgressIdle /\ MigrateIdle /\ PoolIdle /\ DiscoverIdle /\ FrontierIdle /\ GraphIdle /\ StatusIdle /\ ManagerIdle

SpecThreads ==
  InitThreads /\ [][ThreadsNext]_vars

InitDiscover ==
  DiscoverInit /\ RouterIdle /\ AutoIdle /\ FetchIdle /\ BatchIdle /\ CrawlIdle /\ StoreIdle /\ SqliteIdle /\ BacklinkIdle /\ PagerankIdle /\ UrlsIdle /\ ProgressIdle /\ MigrateIdle /\ PoolIdle /\ ThreadsIdle /\ FrontierIdle /\ GraphIdle /\ StatusIdle /\ ManagerIdle

SpecDiscover ==
  InitDiscover /\ [][DiscoverNext]_vars

InitFrontier ==
  FrontierInit /\ RouterIdle /\ AutoIdle /\ FetchIdle /\ BatchIdle /\ CrawlIdle /\ StoreIdle /\ SqliteIdle /\ BacklinkIdle /\ PagerankIdle /\ UrlsIdle /\ ProgressIdle /\ MigrateIdle /\ PoolIdle /\ ThreadsIdle /\ DiscoverIdle /\ GraphIdle /\ StatusIdle /\ ManagerIdle

SpecFrontier ==
  InitFrontier /\ [][FrontierNext]_vars

InitGraph ==
  GraphInit /\ RouterIdle /\ AutoIdle /\ FetchIdle /\ BatchIdle /\ CrawlIdle /\ StoreIdle /\ SqliteIdle /\ BacklinkIdle /\ PagerankIdle /\ UrlsIdle /\ ProgressIdle /\ MigrateIdle /\ PoolIdle /\ ThreadsIdle /\ DiscoverIdle /\ FrontierIdle /\ StatusIdle /\ ManagerIdle

SpecGraph ==
  InitGraph /\ [][GraphNext]_vars

InitStatus ==
  StatusInit /\ RouterIdle /\ AutoInit /\ FetchIdle /\ BatchIdle /\ CrawlIdle /\ StoreIdle /\ SqliteIdle /\ BacklinkIdle /\ PagerankIdle /\ UrlsIdle /\ ProgressIdle /\ MigrateIdle /\ PoolIdle /\ ThreadsIdle /\ DiscoverIdle /\ FrontierIdle /\ GraphIdle /\ ManagerIdle

SpecStatus ==
  InitStatus /\ [][StatusNext]_vars

InitManager ==
  ManagerInit /\ RouterIdle /\ AutoIdle /\ FetchIdle /\ BatchIdle /\ CrawlIdle /\ StoreIdle /\ SqliteIdle /\ BacklinkIdle /\ PagerankIdle /\ UrlsIdle /\ ProgressIdle /\ MigrateIdle /\ PoolIdle /\ ThreadsIdle /\ DiscoverIdle /\ FrontierIdle /\ GraphIdle /\ StatusIdle

SpecManager ==
  InitManager /\ [][ManagerNext]_vars

(***************************************************************************)
(* Properties of the router                                                *)
(***************************************************************************)

RouterCalls ==
  {"choose", "get_session", "create_crawl_session"}

\* every backend of the pool reports usage at or over a router limit
AllOverLimit(kind) ==
  \A db \in AllDBs : db[1] = kind => OverLimit(usage[db])

\* C1: a backend whose reported usage has storage_bytes >= 5 GiB or
\* rows_written >= 10,000,000 is not returned by choose (nor handed out as a
\* session, nor used for session creation): whenever a router call returns a
\* backend, the usage that backend reported to that call is below both limits.
C1_OverQuotaNeverChosen ==
  result.outcome = "ok" =>
    /\ result.db \in AllDBs
    /\ result.seen = usage[result.db]
    /\ ~OverLimit(result.seen)

\* C1 witness: choose skipped crawl backend 1, which reports over a limit, and
\* returned crawl backend 2.
C1_Witness ==
  /\ result.op = "choose"
  /\ result.outcome = "ok"
  /\ result.db = <<"crawl", 2>>
  /\ OverLimit(usage[<<"crawl", 1>>])
  /\ cyclePos["crawl"] = CycleNext(2, NumCrawlDBs)

HasUrls(pg) ==
  BatchLenOf(pg, urlValid) > 0

\* C3: after an interruption and a restart, crawling continues from the next
\* unprocessed page: no page whose batch completed is crawled again, and no
\* page (holding URLs) whose batch did not complete lies before the page the
\* progress file resumes from.
C3_ResumeNoRepeatNoSkip ==
  interrupted =>
    /\ apc = "crawling" => page \notin done
    /\ file.exists =>
         \A pg \in 1..(file.current_page - 1) : HasUrls(pg) => pg \in done

C5_CurrentPageIsLastCompletedPlusOne ==
  file.exists => file.current_page = lastCompleted + 1

C10_AtMostMaxRetriesRequests ==
  /\ requests <= max_retries
  /\ fpc \in {"backoff", "top", "wait", "rate_wait"} =>
       /\ attempt < max_retries
       /\ fresult = "none"
  /\ fpc = "wait" => requests = attempt + 1
  /\ fpc = "done" =>
       /\ fresult \in {"page", "fail"}
       /\ Len(responses) = requests

\* C10 witness: a fetch that met 429 on every request has ended as a failure
\* after exactly max_retries requests.
C10_Witness ==
  /\ fpc = "done"
  /\ fresult = "fail"
  /\ requests = max_retries
  /\ \A i \in 1..Len(responses) : responses[i] = "429"

(***************************************************************************)
(* Properties of crawl_batch                                               *)
(***************************************************************************)

\* C8: at every instant of a batch the number of requests in flight is at
\* most max_concurrent: the tasks awaiting a response are among the tasks
\* inside the semaphore, and those number max_concurrent minus the
\* semaphore's value, which is never negative.
C8_InFlightAtMostMaxConcurrent ==
  /\ Cardinality(InFlight) <= max_concurrent
  /\ bphase = "gathering" =>
       /\ semaphore >= 0
       /\ Cardinality(Holders) = max_concurrent - semaphore

\* C8 witness: max_concurrent requests are in flight while another URL of
\* the batch waits for the semaphore.
C8_Witness ==
  /\ bphase = "gathering"
  /\ Cardinality(InFlight) = max_concurrent
  /\ \E u \in BatchUrls : tpc[u] = "pending"

\* C9 as stated: an exception while fetching, parsing, storing or logging
\* one URL's result becomes a failed result for that URL only: once the
\* tasks of a batch have ended, crawl_batch returns counts that cover every
\* URL of the batch, with every stored URL counted successful, and the run
\* goes on.
C9_ExceptionBecomesFailedResult ==
  bphase \in {"returned", "raised"} =>
    /\ bphase = "returned"
    /\ run_outcome = "running"
    /\ batch_result.urls_processed = Cardinality(BatchUrls)
    /\ batch_result.successful + batch_result.failed = Cardinality(BatchUrls)
    /\ batch_result.successful = Cardinality(stored)

(***************************************************************************)
(* Properties of comprehensive_crawl                                       *)
(***************************************************************************)

\* C7 as stated: within one run no URL is fetched a second time within
\* recrawl_days of a successful fetch of that URL: whenever an iteration
\* issues a GET for a URL whose GET succeeded earlier in the run, at least
\* recrawl_days days lie between the two.
C7_NoRefetchWithinRecrawlDays ==
  lastGet.prev # NoTime => lastGet.day - lastGet.prev >= recrawl_days

\* C11 as stated: a host that answers 503 to the first k requests for a URL,
\* k < max_retries, and 200 afterwards is asked k+1 times and the result is
\* its 200 response: a fetch whose requests have all met 503 does not end
\* before it has issued max_retries requests.
C11_RetryOn503 ==
  \A u \in BatchUrls :
    (tpc[u] = "done" /\ statuses[u] # <<>>) =>
      ((\A i \in 1..Len(statuses[u]) : statuses[u][i] = 503) =>
         Len(statuses[u]) = max_retries)

(***************************************************************************)
(* Properties of the session and page tables                               *)
(***************************************************************************)

\* C12: in every crawl backend, the session_id of every crawled_pages row is
\* the id of a crawl_sessions row of that same backend.
C12_PageSessionInSameBackend ==
  \A b \in CrawlDbSet :
    \A p \in page_rows[b] : SessionExists(crawl_sessions[b], p.session_id)

\* C13: no backend, neither a crawl backend of the router nor the SQLite
\* file, holds two crawled_pages rows with the same URL.
C13_OneRowPerUrl ==
  /\ \A b \in CrawlDbSet :
       \A p, q \in page_rows[b] : p.url = q.url => p = q
  /\ \A p, q \in sqlite_pages : p.url = q.url => p = q

\* C14: a session row that has been given a terminal status keeps that
\* status.
C14_TerminalStatusKept ==
  \A b \in CrawlDbSet :
    \A i \in 1..Len(crawl_sessions[b]) :
      first_terminal[b][i] # NoTerminal => crawl_sessions[b][i] = first_terminal[b][i]

(***************************************************************************)
(* Properties of store_backlinks                                           *)
(***************************************************************************)

\* C15: when store_backlinks(X) has been called a second time with the same
\* list, and no chunk of either call met an error, the backends hold as many
\* backlinks rows as when the first call ended.
C15_SecondStoreKeepsRowCount ==
  (sb_calls = 2 /\ sb_pc = "idle" /\ ~sb_failed) =>
    TotalBacklinkRows(backlink_rows, BacklinkDbSet) = rows_after_first

\* C16: store_backlinks never ends by raising, and when it returns it has
\* been through every chunk of its list, the skipped ones included.
C16_ChunkErrorsNeverRaise ==
  /\ sb_pc # "raised"
  /\ sb_pc = "returned" => sb_attempted = 1..TotalChunks(sb_input)

(***************************************************************************)
(* Properties of store_pagerank_scores                                     *)
(***************************************************************************)

\* C17: an SQL error met while store_pagerank_scores writes its records is
\* never raised to the caller.
C17_SqlErrorNeverRaised ==
  ~(pr_pc = "raised" /\ pr_error = "sql")

(***************************************************************************)
(* Properties of crawl_page_content                                        *)
(***************************************************************************)

\* C18: when a fetch is skipped because its body is the body another URL
\* returned first, and the skipped URL had no row before, then the URL
\* fetched first has a crawled_pages row, the skipped URL has none, and the
\* skip wrote no crawl_errors row.
C18_DuplicateBodyOneRow ==
  (lastDup # NoDup /\ first_body[lastDup.hash] # lastDup.url /\ ~lastDup.had_row) =>
    /\ HasRow(pageTable, first_body[lastDup.hash])
    /\ ~HasRow(pageTable, lastDup.url)
    /\ lastLogged = "none"

\* C19: a URL that robots.txt disallows never has more than one
\* ROBOTS_BLOCKED row in crawl_errors and never has a crawled_pages row.
C19_RobotsBlockedOneErrorNoRow ==
  \A u \in disallowed :
    /\ robots_errors[u] <= 1
    /\ ~HasRow(pageTable, u)

\* C20: a page whose robots meta tag contains noindex never has a
\* crawled_pages row.
C20_NoindexNeverStored ==
  \A u \in noindex : ~HasRow(pageTable, u)

(***************************************************************************)
(* Properties of get_urls_batch                                            *)
(***************************************************************************)

\* C21: over the unchanged store, every get_urls_batch(page) call returns
\* what the first call for that page returned, and that list is the page's
\* slice of the ordered distinct URLs of the store.
C21_UrlsBatchDeterministic ==
  last_answer.page # 0 =>
    /\ last_answer.urls = first_answer[last_answer.page]
    /\ last_answer.urls =
         LimitOffset(OrderedUrls(UNION {url_store[b] : b \in UrlBackendSet}),
                     url_limit, (last_answer.page - 1) * url_limit)

(***************************************************************************)
(* Properties of the router under exhaustion and incomplete usage data     *)
(***************************************************************************)

\* the usage response carries none of storage_bytes / rows_written as numbers
FieldsMissing(u) ==
  /\ u.kind \in {"empty", "dict"}
  /\ u.storage = NullVal
  /\ u.writes = NullVal

\* C22: with every crawl backend reporting rows_written = 9,500,000 a
\* choose("crawl") call ends in an error; with one crawl backend at
\* rows_written = 1,000,000 and the others at 9,500,000 it returns that one.
C22_ExhaustedAt9500000 ==
  (result.op = "choose" /\ result.kind = "crawl") =>
    /\ (\A i \in 1..NumCrawlDBs : usage[<<"crawl", i>>].writes = 9500000)
          => result.outcome = "error"
    /\ \A i \in 1..NumCrawlDBs :
          (/\ usage[<<"crawl", i>>].kind = "dict"
           /\ usage[<<"crawl", i>>].writes = 1000000
           /\ FieldOrZero(usage[<<"crawl", i>>].storage) < STORAGE_LIMIT_KIB
           /\ \A j \in 1..NumCrawlDBs \ {i} : usage[<<"crawl", j>>].writes = 9500000)
          => result.db = <<"crawl", i>>

\* C23: a backend whose usage response lacks the usage fields (absent or
\* null) counts as zero usage and is eligible: choose(kind) never comes back
\* without a backend while such a backend is in the pool.
C23_MissingFieldsEligible ==
  (result.op = "choose" /\ result.outcome = "none") =>
    \A b \in AllDBs : b[1] = result.kind => ~FieldsMissing(usage[b])

(***************************************************************************)
(* Properties of the progress file on disk                                 *)
(***************************************************************************)

\* C24: at every instant the progress file, when it exists, holds a complete
\* state, the one before the save in progress or the one being saved, and no
\* load_progress falls back to the defaults because the file was unreadable.
C24_ProgressFileAlwaysComplete ==
  /\ pf_disk # NoDisk =>
       /\ JsonComplete(pf_disk)
       /\ pf_disk \in {pf_prev, JsonDump(pf_new)}
  /\ ~pf_loaded.fallback

(***************************************************************************)
(* Properties of the interrupt handling of the auto-batch run              *)
(***************************************************************************)

\* C25: when a user interrupt arrives while a batch is being crawled, that
\* batch completes and its progress is in the progress file when the run has
\* stopped: the file's next page is the one after the interrupted batch.
C25_InterruptedBatchCompletes ==
  cut_batch # 0 =>
    /\ apc = "stopped"
    /\ lastCompleted = cut_batch
    /\ file.current_page = cut_batch + 1

(***************************************************************************)
(* Properties of the schema migration                                      *)
(***************************************************************************)

\* C26: however often the migration list is applied to a backend, the schema
\* is the one the first application left, and no application raises an error
\* to its caller; the same for update_schema_safely with the same columns.
C26_MigrationIdempotent ==
  /\ mg_applied >= 1 => mg_schema = mg_first
  /\ sq_applied >= 1 => sq_schema = sq_first
  /\ ~mg_raised
  /\ ~sq_raised

\* C26 witness: the migration ran at least twice on a backend to which the
\* first run added a column, next to one whose table is absent; and
\* update_schema_safely ran twice after adding a column.
C26_Witness ==
  /\ mg_applied >= 2
  /\ \E b \in MigrateDbSet : mg_before[b].table.cols # mg_schema[b].table.cols
  /\ \E b \in MigrateDbSet : mg_schema[b].reachable /\ ~mg_schema[b].table.exists
  /\ sq_applied >= 2
  /\ sq_before.cols # sq_schema.cols

(***************************************************************************)
(* Properties of one choose call and of the round-robin order              *)
(***************************************************************************)

\* the pool of the latest call in cycle order from the position it began at
CycleOrder(list, start) ==
  [k \in 1..Len(list) |-> list[((start + k - 2) % Len(list)) + 1]]

\* C27: one choose call makes at most len(pool) cycle steps, checks the quota
\* of no backend twice, returns the first backend in cycle order from the
\* position it began at that passes the limits, and returns a backend
\* whenever some backend of the pool passes.
C27_ChooseFirstPassing ==
  pl_last.outcome \in {"ok", "none", "error"} /\ pl_last.list # <<>> =>
    LET order == CycleOrder(pl_last.list, pl_last.start)
    IN  /\ pl_last.steps <= Len(pl_last.list)
        /\ \A i, j \in 1..Len(pl_last.evals) :
             pl_last.evals[i] = pl_last.evals[j] => i = j
        /\ pl_last.outcome = "ok" =>
             \E k \in 1..Len(order) :
               /\ order[k] = pl_last.db
               /\ Passes(order[k], pl_usage)
               /\ \A m \in 1..(k - 1) : ~Passes(order[m], pl_usage)
        /\ (\E b \in Members(pl_last.list) : Passes(b, pl_usage))
             => pl_last.outcome = "ok"

\* C28: while all N backends of the pool are under quota, N consecutive
\* choose calls return each backend of the pool exactly once, also in a pool
\* that refresh_database_cycles has rebuilt.
C28_RoundRobinEachOnce ==
  (/\ pl_list # <<>>
   /\ \A b \in Members(pl_list) : Passes(b, pl_usage)
   /\ Len(pl_window) = Cardinality(Members(pl_list)))
    => Members(pl_window) = Members(pl_list)

(***************************************************************************)
(* Properties of finish_crawl_session across the backends                  *)
(***************************************************************************)

\* C29: finishing the session (id, db_name) sets the status of row id in
\* backend db_name and changes no session row of another backend: a session
\* row has a terminal status exactly when the finish of its own handle was
\* called.
C29_FinishOnlyOwnBackend ==
  \A b \in CrawlDbSet :
    \A i \in 1..Len(crawl_sessions[b]) :
      (<<b, i>> \in finish_called) <=> (crawl_sessions[b][i] \in TerminalStatuses)

(***************************************************************************)
(* Properties of concurrent choose calls                                   *)
(***************************************************************************)

\* the orders in which the calls of the threads can be run one after another
CallOrders ==
  {o \in [Threads -> Threads] : \A s, t \in Threads : o[s] = o[t] => s = t}

\* what the calls return when they run one after another, the k-th call and
\* those after it, from cycle position pos
RECURSIVE RunInOrder(_, _, _)
RunInOrder(o, k, pos) ==
  IF k > NumThreads THEN <<>>
  ELSE LET r == ChooseLoop(ThreadPool, pos, Len(ThreadPool), {}, th_usage)
       IN  <<[thread |-> o[k], outcome |-> r.outcome,
              db |-> IF r.outcome = "ok" THEN r.db ELSE 0]>>
             \o RunInOrder(o, k + 1, r.pos)

\* C30: when concurrent choose calls have all returned, what they returned
\* is what the same calls return in some order one after another from the
\* same cycle position; and no call returns a backend that fails the quota
\* check.
C30_ConcurrentChooseSerializable ==
  /\ \A t \in Threads :
       th_result[t].outcome = "ok" => CheckQuota(th_usage[th_result[t].db])
  /\ (\A t \in Threads : th_pc[t] = "done") =>
       \E o \in CallOrders :
         LET run == RunInOrder(o, 1, th_start)
         IN  \A k \in 1..NumThreads :
               /\ th_result[run[k].thread].outcome = run[k].outcome
               /\ th_result[run[k].thread].db = run[k].db

(***************************************************************************)
(* Properties of access-denied responses in fetch_page_with_retry          *)
(***************************************************************************)

\* C33: for a URL that is not on a social-media domain, a 401 or 403
\* response is the last response of the fetch: the fetch has ended as a
\* failure and no request follows it.
C33_AccessDeniedEndsFetch ==
  ~is_social =>
    \A i \in 1..Len(responses) :
      responses[i] \in {"401", "403"} =>
        /\ i = Len(responses)
        /\ fpc = "done"
        /\ fresult = "fail"
        /\ requests = i

(***************************************************************************)
(* Properties of the requests of crawl_depth                               *)
(***************************************************************************)

\* C31: at every instant the requests in flight, robots.txt requests
\* included, number at most the bound of the semaphore.
C31_InFlightWithinSemaphore ==
  Cardinality(DiscoverInFlight) <= depth_semaphore

\* C32: two successive page requests to the same host are never issued less
\* than the delay apart, whichever tasks issue them.
C32_PolitenessPerHost ==
  ~d_close

(***************************************************************************)
(* Properties of the URL frontier                                          *)
(***************************************************************************)

\* C34: the URL the frontier serves has the lowest priority of the URLs in
\* it, and among the other URLs of that priority it is the one inserted
\* first (two entries of one URL and one priority cannot be told apart).
C34_FrontierPriorityThenInsertion ==
  fr_served # NotServed =>
    \A e \in fr_before :
      \/ e.priority > fr_served.priority
      \/ e.priority = fr_served.priority /\ e.seq >= fr_served.seq
      \/ e.priority = fr_served.priority /\ e.url = fr_served.url

(***************************************************************************)
(* Properties of the link graph                                            *)
(***************************************************************************)

\* C35: after build_link_graph the weight of an edge is the greatest weight
\* of the backlinks from its source to its target, whatever their order.
C35_EdgeWeightIsMaximum ==
  gr_pc = "built" =>
    \A i \in 1..Len(gr_backlinks) :
      gr_graph[<<gr_backlinks[i].source_url, gr_backlinks[i].target_url>>]
        >= BacklinkWeight(gr_backlinks[i])

(***************************************************************************)
(* Properties of the end of the auto-batch run and of its counters         *)
(***************************************************************************)

\* C36: the run declares all pages processed, and moves current_page past
\* the page it stopped at, only when the URL source has no URL at that page.
C36_FinishedOnlyOnEmptyPage ==
  finished_at # 0 =>
    PageSlice(finished_at, BatchSize) = {}

C38_ProgressNeverDecreases ==
  [][ (file.exists /\ file'.exists /\ file' # SaveProgress(DefaultData)) =>
        /\ file'.current_page >= file.current_page
        /\ file'.urls_processed >= file.urls_processed ]_vars

(***************************************************************************)
(* Properties of the connection pool of ProductionDatabaseManager          *)
(***************************************************************************)

\* C39: no connection is held by two users at once, a connection of the pool
\* is marked in use exactly while a user holds it (so it is free again once
\* its user has left, normally or by exception), and at most max_connections
\* users hold a connection.
C39_PoolExclusiveAndNoLeak ==
  /\ \A u1 \in PoolUsers, u2 \in PoolUsers :
       (u1 # u2 /\ user_pc[u1] = "using" /\ user_pc[u2] = "using") =>
         conn_id[u1] # conn_id[u2]
  /\ \A c \in DOMAIN connections :
       connections[c] <=> \E u \in PoolUsers : user_pc[u] = "using" /\ conn_id[u] = c
  /\ Cardinality({ u \in PoolUsers : user_pc[u] = "using" }) <= max_connections

\* C39 witness: every connection is held, one of them after an earlier user
\* left it by an exception, and a further user was refused.
C39_Witness ==
  /\ \A c \in DOMAIN connections : connections[c]
  /\ DOMAIN connections # {}
  /\ \E u \in PoolUsers : user_pc[u] = "using" /\ conn_id[u] \in freed_on_error
  /\ was_refused # {}

(***************************************************************************)
(* Properties of the depth counter of comprehensive_crawl                  *)
(***************************************************************************)

\* C40: the depth counter has advanced at most once for each multiple of 10
\* crawled pages reached so far (0 pages counted as one), so URLs that fail,
\* are blocked or are skipped do not advance it.
C40_DepthAdvancesPerTenPages ==
  current_depth <= (crawled_pages \div DepthEvery) + 1
====
